---- MODULE Spec2Model ----
(***************************************************************************)
(* A model of node-acp's session layer (src/src/lib/session.ts), of the    *)
(* client facade's use of it and of the server's AUTHENTICATE handler      *)
(* (src/src/lib/server.ts).                                                *)
(*                                                                         *)
(* JavaScript runs one task at a time.  An action of this model is one     *)
(* macrotask of the event loop (a socket event, a timer, a call made by    *)
(* the user's code) together with every microtask it makes runnable: the   *)
(* continuation of an `await` on an already settled promise runs before    *)
(* the next socket event or timer.                                         *)
(***************************************************************************)
EXTENDS Integers, Sequences, FiniteSets, TLC

(* ------------------------------ bounds ------------------------------- *)

\* number of Session.queue calls
MaxJobs == 2
\* length of a message header (MESSAGE_HEADER_SIZE, 128 in the source)
HeaderLen == 2
\* length of a monitor frame header (8 in the source)
MonHeaderLen == 3
\* largest body the peer sends
MaxBody == 2
\* number of unsolicited frames the peer pushes
MaxPush == 1
\* the clock stops here
MaxTime == 3
\* receive's timeout (10000 ms in the source), in clock ticks
Timeout == 1

\* bytes each side sends on an encrypted connection
MaxStream == 2
\* largest byte value sent on an encrypted connection
MaxByte == 1
\* largest key and IV
MaxKey == 1
\* calls made on the Client
MaxCalls == 3
Jobs == 1..MaxJobs
\* a reader is owned by a job, or by the unsolicited-data handler (owner 0)
Owners == 0..MaxJobs

(* ----------------------------- constants ----------------------------- *)

\* first byte of HEADER_MAGIC 'acpp'
Magic == 97
\* 'X' and 'E', the magic of a monitor frame
\* MessageType.AUTHENTICATE
AUTHENTICATE == 26
\* MessageType.GET_PROPERTY, SET_PROPERTY, RPC
GET_PROPERTY == 20
SET_PROPERTY == 21
RPC == 25
\* MessageType.FLASH_PRIMARY, MONITOR
FLASH_PRIMARY == 3
MONITOR == 24
\* ErrorCode.INCORRECT_PASSWORD
INCORRECT_PASSWORD == -6754
XByte == 88
EByte == 69

(* ------------------------------ helpers ------------------------------ *)

Min(a, b) == IF a < b THEN a ELSE b

\* Buffer.slice(0, n)
Take(buf, n) == SubSeq(buf, 1, Min(n, Len(buf)))

\* Buffer.slice(n)
Drop(buf, n) == SubSeq(buf, Min(n, Len(buf)) + 1, Len(buf))

\* Array.indexOf, 0 when absent
RECURSIVE IndexOf(_, _)
IndexOf(s, x) ==
    IF s = <<>> THEN 0
    ELSE IF Head(s) = x THEN 1
    ELSE LET r == IndexOf(Tail(s), x) IN IF r = 0 THEN 0 ELSE r + 1

\* Array.splice(i, 1)
Splice(s, i) == SubSeq(s, 1, i - 1) \o SubSeq(s, i + 1, Len(s))

RECURSIVE Xor(_, _)
Xor(a, b) ==
    IF a = 0 THEN b
    ELSE IF b = 0 THEN a
    ELSE (((a % 2) + (b % 2)) % 2) + 2 * Xor(a \div 2, b \div 2)

\* how many bytes of a sequence belong to the response to job j
RECURSIVE CountOf(_, _)
CountOf(s, j) ==
    IF s = <<>> THEN 0
    ELSE (IF Head(s).of = j THEN 1 ELSE 0) + CountOf(Tail(s), j)

Values(s) == [i \in 1..Len(s) |-> s[i].v]

(* ------------------------------- state ------------------------------- *)

VARIABLES
    sock,           \* Session.socket: "none" (null, never connected), "open", "closed" (null again)
    encryption,     \* Session.encryption of the client session
    buffer,         \* Session.buffer
    reading,        \* Session.reading
    rd,             \* the receiveSize calls in progress, by owner
    monpc,          \* where handleMonitorData stands: "idle", "header", "body"
    nq,             \* number of links of the Session._queue promise chain
    queue_rejects,  \* Session._queue_rejects
    jpc,            \* where each job stands
    linkDone,       \* the async function of the job's chain link has returned
    promise,        \* the promise Session.queue returned for the job
    lock,           \* the SessionLock made for the job: "none", "valid", "invalid"
    c2s,            \* requests written to the socket, in order
    s2c,            \* bytes the peer sent that no data event delivered yet
    now,            \* Date.now()
    \* history, read by no action's guard
    sent,           \* number of bytes the peer has sent
    consumed,       \* number of bytes taken off the head of the buffer
    wrote,          \* jobs whose request was written to the socket
    started,        \* the jobs in the order their callbacks were invoked
    closedWhileQueued, \* jobs that were waiting in the queue when the socket closed
    respLen,        \* length of the peer's response to each job
    readOwn,        \* how many bytes of its own response each job has received
    lastRecv,       \* the last receive call that returned
    monEvents,      \* bodies of the 'monitor-data' events emitted
    pushes          \* unsolicited frames the peer has pushed

sessVars == <<sock, encryption, buffer, reading, rd, monpc, nq, queue_rejects, jpc,
              linkDone, promise, lock, c2s, s2c, now, sent, consumed, wrote, started,
              closedWhileQueued, respLen, readOwn, lastRecv, monEvents, pushes>>

\* the server's session of the connection, the Client that owns the Session,
\* and what is in flight between the two
VARIABLES
    ssock,          \* the server session's socket: "none", "open", "closed" (null)
    senc,           \* session.encryption of the server's session
    srp,            \* session.srp of the server's session: 0 (undefined) or the instance
    authenticating_user, \* session.authenticating_user
    nsrp,           \* number of srp.Server instances created (each has a fresh random B)
    authenticating, \* Client.authenticating is set
    cq,             \* Client: the jobs waiting in Session.queue
    cjob,           \* Client: the job whose callback is running, and where it stands
    ncalls,         \* number of calls made on the Client
    lastB,          \* the public key B of the last stage-two reply the caller saw
    password_ok,    \* Client.password is the password of the server's user 'admin'
    a_c2s,          \* messages on their way to the server
    a_s2c,          \* messages on their way to the client
    wire_c2s,       \* encrypted bytes on their way to the server
    wire_s2c,       \* encrypted bytes on their way to the client
    \* history, read by no action's guard
    installs,       \* calls of enableServerEncryption since the socket opened
    cinstalls,      \* calls of enableEncryption since the socket opened
    m1log,          \* the state-3 AUTHENTICATE messages the server handled
    issuedB,        \* B of the last stage-two reply the server sent on this socket
    plain_c,        \* the bytes the client passed to send
    plain_s,        \* the bytes the server passed to send
    got_c,          \* the decrypted bytes the client's 'data' events carried
    got_s,          \* the decrypted bytes the server's 'data' events carried
    events          \* number of data events delivered to each side

VARIABLES
    proof           \* history: whether checkM2 has thrown, what the last authenticate job
                    \* did, and the messages the client sent after checkM2 threw

\* a Client's property exchanges (getProperties, setProperties) on a connected
\* Session; the unit of these streams is one 32-bit word
VARIABLES
    pbuf,           \* Session.buffer
    preading,       \* Session.reading
    pin,            \* words the peer sent that no data event delivered yet
    pout,           \* requests written to the socket and not yet answered
    pj,             \* the two exchanges queued on the session, and where each stands
    \* history, read by no action's guard
    presp           \* the response the peer sent to each exchange

propVars == <<pbuf, preading, pin, pout, pj, presp>>

VARIABLES
    monitorJob,     \* history: the job of the Client.monitor call, 0 before the call
    pushed          \* history: the body sizes of the monitor frames the peer pushed

\* a Server and the sessions of two connections to it
VARIABLES
    handlingData,   \* Server._handlingData
    accepted,       \* the connections handleConnection has made a session for
    sbuf,           \* session.buffer of each connection
    hrun,           \* the handleData calls that wait for a handler, by connection
    snet,           \* what each client wrote that no data event delivered yet
    \* history, read by no action's guard
    nmsg,           \* number of messages the clients wrote
    dispatched,     \* the messages handleMessage was called with, by connection
    turnedAway,     \* by connection: the connection whose handler was running when
                    \* handleData returned at once for a data event, 0 if none
    appendedOnly,   \* data events during a handler of their connection only appended
    destroyed,      \* the connections whose socket tryHandleMessage destroyed
    streams         \* the stream headers Message.parseRaw has met: connection
                    \* and message

srvVars == <<handlingData, accepted, sbuf, hrun, snet, nmsg, dispatched, turnedAway,
             appendedOnly, destroyed, streams>>

\* one call of a function of the library: what it was called with and what
\* it gave back
VARIABLES
    fin,            \* the function and its arguments
    fdone,          \* the call has returned or thrown
    fout,           \* what it returned, threw, called and sent
    firmware        \* the stream of firmware.parse, the rest of the file to write
                    \* to it, and whether every chunk so far was one byte

fnVars == <<fin, fdone, fout, firmware>>

VARIABLES
    lockCall        \* history: the last call made on a job's SessionLock by its
                    \* holder, and what the call did

\* the state of the other parts of the program
extVars == <<propVars, monitorJob, pushed, srvVars, fnVars, lockCall>>

pairVars == <<ssock, senc, srp, authenticating_user, nsrp, authenticating, cq, cjob,
              ncalls, lastB, password_ok, a_c2s, a_s2c, wire_c2s, wire_s2c, installs,
              cinstalls, m1log, issuedB, plain_c, plain_s, got_c, got_s, events>>

\* the fields of the client's Session that the exchanges with the server's
\* session do not touch
sessRest == <<reading, rd, monpc, nq, queue_rejects, jpc, linkDone, promise, lock, c2s, s2c,
              now, sent, consumed, wrote, started, closedWhileQueued, respLen, readOwn,
              lastRecv, monEvents, pushes>>

NoEnc == [role |-> "none"]

IdleReader == [active |-> FALSE, size |-> 0, waiting_for |-> 0, chunks |-> <<>>,
               last_received_at |-> 0, start |-> 0, parts |-> 0, new_at |-> 0,
               idle |-> 0, polled_closed |-> FALSE]

NoLockCall == [n |-> 0, job |-> 0, method |-> "none", settled |-> FALSE,
               error |-> "none", wrote |-> 0, took |-> 0]

NoRecv == [owner |-> 0, size |-> 0, bytes |-> <<>>, start |-> 0, end |-> 0, parts |-> 0]

(* ---------------------------- encryption ----------------------------- *)

\* crypto.pbkdf2Sync(key, salt, iterations, 16, 'sha1'): a fixed function of
\* its arguments; salt 0 is PBKDF_salt0, salt 1 is PBKDF_salt1
Pbkdf2(key, salt, iterations) == (3 * key + 5 * salt + iterations) % 4

\* byte i of the AES-128-CTR keystream of (key, iv)
CtrKeystream(key, iv, i) == (key + 2 * iv + (key + 1) * i + ((i * i) \div 2)) % 4

\* cipher.update / decipher.update of a stream that has already processed
\* pos bytes: CTR mode XORs byte i of the data with byte i of the keystream
CtrUpdate(key, iv, pos, data) ==
    [i \in 1..Len(data) |-> [data[i] EXCEPT !.v = Xor(@, CtrKeystream(key, iv, pos + i))]]

\* new Encryption(key, client_iv, server_iv): two contexts, each a cipher and
\* a decipher with its own position
NewEncryption(role, key, client_iv, server_iv) ==
    [role |-> role, key |-> key, client_iv |-> client_iv, server_iv |-> server_iv,
     derived_client_key |-> Pbkdf2(key, 0, 5), derived_server_key |-> Pbkdf2(key, 1, 7),
     client_cipher |-> 0, client_decipher |-> 0, server_cipher |-> 0, server_decipher |-> 0]

clientEncrypt(e, data) ==
    [out |-> CtrUpdate(e.derived_client_key, e.client_iv, e.client_cipher, data),
     enc |-> [e EXCEPT !.client_cipher = @ + Len(data)]]

clientDecrypt(e, data) ==
    [out |-> CtrUpdate(e.derived_client_key, e.client_iv, e.client_decipher, data),
     enc |-> [e EXCEPT !.client_decipher = @ + Len(data)]]

serverEncrypt(e, data) ==
    [out |-> CtrUpdate(e.derived_server_key, e.server_iv, e.server_cipher, data),
     enc |-> [e EXCEPT !.server_cipher = @ + Len(data)]]

serverDecrypt(e, data) ==
    [out |-> CtrUpdate(e.derived_server_key, e.server_iv, e.server_decipher, data),
     enc |-> [e EXCEPT !.server_decipher = @ + Len(data)]]

\* ClientEncryption.encrypt / ServerEncryption.encrypt
encrypt(e, data) ==
    IF e.role = "client" THEN clientEncrypt(e, data) ELSE serverEncrypt(e, data)

\* decrypt with the stream the same side encrypts with
decryptOwnStream(e, data) ==
    IF e.role = "client" THEN clientDecrypt(e, data) ELSE serverDecrypt(e, data)

\* ClientEncryption.decrypt / ServerEncryption.decrypt
decrypt(e, data) ==
    IF e.role = "client" THEN serverDecrypt(e, data) ELSE clientDecrypt(e, data)

(* --------------------- the session, as functions --------------------- *)

\* The part of the state that the code run by one task reads and writes.
Cur == [buffer |-> buffer, reading |-> reading, rd |-> rd, monpc |-> monpc, jpc |-> jpc,
        linkDone |-> linkDone, promise |-> promise, lock |-> lock, consumed |-> consumed,
        readOwn |-> readOwn, lastRecv |-> lastRecv, monEvents |-> monEvents]

Apply(S) ==
    /\ buffer' = S.buffer
    /\ reading' = S.reading
    /\ rd' = S.rd
    /\ monpc' = S.monpc
    /\ jpc' = S.jpc
    /\ linkDone' = S.linkDone
    /\ promise' = S.promise
    /\ lock' = S.lock
    /\ consumed' = S.consumed
    /\ readOwn' = S.readOwn
    /\ lastRecv' = S.lastRecv
    /\ monEvents' = S.monEvents

\* resolve(...) and reject(...) of a promise: only the first call settles it
Settle(p, j, outcome) == IF p[j] = "pending" THEN [p EXCEPT ![j] = outcome] ELSE p

\* Message.parseRaw on a header: the magic is checked, the last field read
\* here is the body size
ValidHeader(h) == \A i \in 1..(Len(h) - 1) : h[i].v = Magic

BodySize(h) == h[Len(h)].v

\* a lock that stays valid
invalidateNever(S, j) == S

\* SessionLock.invalidate, called by the chain link on the lock it made
invalidate(S, j) ==
    [S EXCEPT !.lock[j] = IF @ = "valid" THEN "invalid" ELSE @]

\* a chain link that ends with the callback's error instead of catching it
JobSettleUncaught(S, j, outcome) ==
    invalidate([S EXCEPT !.promise = Settle(@, j, outcome), !.jpc[j] = "done",
                         !.linkDone[j] = (outcome # "rejError")], j)

\* Session.queue, the end of the chain link's async function: the callback
\* has returned or thrown, the job's promise is settled with its outcome,
\* the lock is invalidated and the link's promise resolves
JobSettle(S, j, outcome) ==
    invalidate([S EXCEPT !.promise = Settle(@, j, outcome), !.jpc[j] = "done",
                         !.linkDone[j] = TRUE], j)

\* the timeout test at the head of receiveSize's loop
TimedOut(last_received_at, t, timeout) == last_received_at > t + timeout

RECURSIVE BeginReceive(_, _, _)
RECURSIVE LoopCheck(_, _)
RECURSIVE Return(_, _)
RECURSIVE Throw(_, _)
RECURSIVE JobContinue(_, _, _)
RECURSIVE MonContinue(_, _)
RECURSIVE HandleLoop(_)

\* Session.receiveSize up to its loop: count the call in, take what the
\* buffer holds
BeginReceive(S, o, size) ==
    LET got == Take(S.buffer, size)
    IN  LoopCheck([S EXCEPT !.reading = @ + 1,
                            !.buffer = Drop(@, size),
                            !.consumed = @ + Len(got),
                            !.rd[o] = [active |-> TRUE, size |-> size,
                                       waiting_for |-> size - Len(got), chunks |-> got,
                                       last_received_at |-> now, start |-> S.consumed,
                                       parts |-> IF got = <<>> THEN 0 ELSE 1,
                                       new_at |-> now, idle |-> 0,
                                       polled_closed |-> FALSE]], o)

\* the head of the loop: done, timed out, or asleep for another millisecond
LoopCheck(S, o) ==
    IF S.rd[o].waiting_for > 0
    THEN IF TimedOut(S.rd[o].last_received_at, now, Timeout)
         THEN Throw(S, o)
         ELSE [S EXCEPT !.rd[o].idle = now - S.rd[o].new_at]
    ELSE Return(S, o)

\* a return that leaves the call counted in
ReturnWithoutFinally(S, o) ==
    LET r == S.rd[o]
        S1 == [S EXCEPT !.rd[o] = IdleReader,
                        !.lastRecv = [owner |-> o, size |-> r.size, bytes |-> r.chunks,
                                      start |-> r.start, end |-> S.consumed,
                                      parts |-> r.parts]]
    IN  IF o = 0 THEN MonContinue(S1, r.chunks)
        ELSE JobContinue([S1 EXCEPT !.readOwn[o] = @ + CountOf(r.chunks, o)], o, r.chunks)

\* return Buffer.concat(received_chunks), through `finally`
Return(S, o) ==
    LET r == S.rd[o]
        S1 == [S EXCEPT !.reading = @ - 1,
                        !.rd[o] = IdleReader,
                        !.lastRecv = [owner |-> o, size |-> r.size, bytes |-> r.chunks,
                                      start |-> r.start, end |-> S.consumed,
                                      parts |-> r.parts]]
    IN  IF o = 0 THEN MonContinue(S1, r.chunks)
        ELSE JobContinue([S1 EXCEPT !.readOwn[o] = @ + CountOf(r.chunks, o)], o, r.chunks)

\* throw new Error('Timeout'), through `finally`; the error reaches the job's
\* callback, or is logged by _handleData
Throw(S, o) ==
    LET S1 == [S EXCEPT !.reading = @ - 1, !.rd[o] = IdleReader]
    IN  IF o = 0 THEN HandleLoop([S1 EXCEPT !.monpc = "idle"])
        ELSE JobSettle(S1, o, "rejError")

\* a receiveMessage that returns after the header, leaving the body unread
JobContinueNoBody(S, j, bytes) ==
    IF ~ValidHeader(bytes) THEN JobSettle(S, j, "rejError")
    ELSE JobSettle(S, j, "resolved")

\* Session.receiveMessage inside Client.send's job, after a receive returned
JobContinue(S, j, bytes) ==
    IF S.jpc[j] = "header"
    THEN IF ~ValidHeader(bytes) THEN JobSettle(S, j, "rejError")
         ELSE IF BodySize(bytes) > 0
              THEN BeginReceive([S EXCEPT !.jpc[j] = "body"], j, BodySize(bytes))
              ELSE JobSettle(S, j, "resolved")
    ELSE JobSettle(S, j, "resolved")

\* Session.handleMonitorData, after a receive returned
MonContinue(S, bytes) ==
    IF S.monpc = "header"
    THEN BeginReceive([S EXCEPT !.monpc = "body"], 0, BodySize(bytes))
    ELSE HandleLoop([S EXCEPT !.monpc = "idle",
                              !.monEvents = Append(@, Values(bytes))])

\* Session._handleData and Session.handleData: while nobody reads and the
\* buffer holds bytes, read a monitor frame or drop the buffer
HandleLoop(S) ==
    IF S.reading = 0 /\ S.buffer # <<>>
    THEN IF Len(S.buffer) >= 2 /\ S.buffer[1].v = XByte /\ S.buffer[2].v = EByte
         THEN BeginReceive([S EXCEPT !.monpc = "header"], 0, MonHeaderLen)
         ELSE HandleLoop([S EXCEPT !.buffer = <<>>, !.consumed = @ + Len(S.buffer)])
    ELSE S

\* a poll that takes the whole buffer instead of what is still missing
PollTakeAll(S, o) ==
    LET received == S.buffer
    IN  LoopCheck([S EXCEPT !.buffer = <<>>,
                            !.consumed = @ + Len(received),
                            !.rd[o].waiting_for = IF Len(received) > @ THEN 0
                                                  ELSE @ - Len(received),
                            !.rd[o].chunks = @ \o received,
                            !.rd[o].parts = IF received = <<>> THEN @ ELSE @ + 1,
                            !.rd[o].new_at = IF received = <<>> THEN @ ELSE now,
                            !.rd[o].last_received_at = now,
                            !.rd[o].polled_closed = (sock # "open")], o)

\* the timer of a sleeping receiveSize fires: take what has arrived
Poll(S, o) ==
    LET received == Take(S.buffer, S.rd[o].waiting_for)
    IN  LoopCheck([S EXCEPT !.buffer = Drop(@, Len(received)),
                            !.consumed = @ + Len(received),
                            !.rd[o].waiting_for = @ - Len(received),
                            !.rd[o].chunks = @ \o received,
                            !.rd[o].parts = IF received = <<>> THEN @ ELSE @ + 1,
                            !.rd[o].new_at = IF received = <<>> THEN @ ELSE now,
                            !.rd[o].last_received_at = now,
                            !.rd[o].polled_closed = (sock # "open")], o)

(* ------------------------------ actions ------------------------------ *)

\* a chain that does not wait for the link before
PrevSettledNoWait(j) == TRUE

\* `this._queue.then(...)`: a link runs once the link before it has resolved
PrevSettled(j) == IF j = 1 THEN TRUE ELSE linkDone[j - 1]

\* a chain link is ready to run: it runs as a microtask, before the event
\* loop delivers another socket event or timer
MicrotaskPending == \E j \in 1..nq : jpc[j] = "queued" /\ PrevSettled(j)

Invoked(j) == \E i \in 1..Len(started) : started[i] = j

\* Session.connect: the socket exists and its handlers are registered
Connect ==
    /\ sock = "none"
    /\ sock' = "open"
    /\ UNCHANGED <<encryption, buffer, reading, rd, monpc, nq, queue_rejects, jpc,
                   linkDone, promise, lock, c2s, s2c, now, sent, consumed, wrote, started,
                   closedWhileQueued, respLen, readOwn, lastRecv, monEvents, pushes>>
    /\ UNCHANGED pairVars
    /\ UNCHANGED proof
    /\ UNCHANGED extVars

\* Session.queue(callback), up to the return of the new promise
QueueCall ==
    /\ nq < MaxJobs
    /\ nq' = nq + 1
    /\ queue_rejects' = Append(queue_rejects, nq + 1)
    /\ jpc' = [jpc EXCEPT ![nq + 1] = "queued"]
    /\ UNCHANGED <<sock, encryption, buffer, reading, rd, monpc, linkDone, promise, lock,
                   c2s, s2c, now, sent, consumed, wrote, started, closedWhileQueued,
                   respLen, readOwn, lastRecv, monEvents, pushes>>
    /\ UNCHANGED pairVars
    /\ UNCHANGED proof
    /\ UNCHANGED extVars

\* the chain link of job j runs: a job missing from _queue_rejects is
\* rejected with 'Canceled'; otherwise a SessionLock is made, the job's
\* callback is invoked with it, and
\* Client.send's callback calls Session.send, which encrypts, throws
\* 'Not connected' without a socket, or else hands the bytes to socket.write
LinkStart(j) ==
    /\ j \in 1..nq
    /\ jpc[j] = "queued"
    /\ PrevSettled(j)
    /\ LET index == IndexOf(queue_rejects, j)
       IN  IF index = 0
           THEN /\ Apply(JobSettle(Cur, j, "rejCanceled"))
                /\ UNCHANGED <<queue_rejects, started, encryption>>
           ELSE /\ queue_rejects' = Splice(queue_rejects, index)
                /\ started' = Append(started, j)
                /\ encryption' = IF encryption # NoEnc
                                 THEN encrypt(encryption, <<>>).enc ELSE encryption
                /\ IF sock # "open"
                   THEN Apply(JobSettle([Cur EXCEPT !.lock[j] = "valid"], j, "rejError"))
                   ELSE Apply([Cur EXCEPT !.lock[j] = "valid", !.jpc[j] = "writing"])
    /\ UNCHANGED <<sock, nq, c2s, s2c, now, sent, wrote, closedWhileQueued, respLen,
                   pushes>>
    /\ UNCHANGED pairVars
    /\ UNCHANGED proof
    /\ UNCHANGED extVars

\* the callback of socket.write: the request is on the wire and
\* Session.receiveMessage starts reading the header; or the write failed
WriteDone(j) ==
    /\ jpc[j] = "writing"
    /\ ~MicrotaskPending
    /\ IF sock = "open"
       THEN /\ c2s' = Append(c2s, j)
            /\ wrote' = wrote \cup {j}
            /\ Apply(BeginReceive([Cur EXCEPT !.jpc[j] = "header"], j, HeaderLen))
       ELSE /\ Apply(JobSettle(Cur, j, "rejError"))
            /\ UNCHANGED <<c2s, wrote>>
    /\ UNCHANGED <<sock, encryption, nq, queue_rejects, s2c, now, sent, started,
                   closedWhileQueued, respLen, pushes>>
    /\ UNCHANGED pairVars
    /\ UNCHANGED proof
    /\ UNCHANGED extVars

\* the 1 ms timer of a receiveSize call fires
PollWake(o) ==
    /\ rd[o].active
    /\ ~MicrotaskPending
    /\ Apply(Poll(Cur, o))
    /\ UNCHANGED <<sock, encryption, nq, queue_rejects, c2s, s2c, now, sent, wrote,
                   started, closedWhileQueued, respLen, pushes>>
    /\ UNCHANGED pairVars
    /\ UNCHANGED proof
    /\ UNCHANGED extVars

\* the socket's 'data' handler, for a chunk of k bytes
DataEvent(k) ==
    /\ sock = "open"
    /\ ~MicrotaskPending
    /\ k \in 1..Len(s2c)
    /\ LET raw == Take(s2c, k)
           dec == IF encryption # NoEnc THEN decrypt(encryption, raw)
                  ELSE [out |-> raw, enc |-> encryption]
           S1 == [Cur EXCEPT !.buffer = @ \o dec.out]
       IN  /\ encryption' = dec.enc
           /\ Apply(IF reading = 0 THEN HandleLoop(S1) ELSE S1)
    /\ s2c' = Drop(s2c, k)
    /\ UNCHANGED <<sock, nq, queue_rejects, c2s, now, sent, wrote, started,
                   closedWhileQueued, respLen, pushes>>
    /\ UNCHANGED pairVars
    /\ UNCHANGED proof
    /\ UNCHANGED extVars

\* the socket's 'close' handler
CloseEvent ==
    /\ sock = "open"
    /\ ~MicrotaskPending
    /\ sock' = "closed"
    /\ encryption' = NoEnc
    /\ promise' = [j \in Jobs |->
                     IF IndexOf(queue_rejects, j) # 0 /\ promise[j] = "pending"
                     THEN "rejUndefined" ELSE promise[j]]
    /\ closedWhileQueued' = {j \in Jobs : jpc[j] = "queued"}
    /\ UNCHANGED <<buffer, reading, rd, monpc, nq, queue_rejects, jpc, linkDone, lock, c2s,
                   s2c, now, sent, consumed, wrote, started, respLen, readOwn, lastRecv,
                   monEvents, pushes>>
    /\ UNCHANGED pairVars
    /\ UNCHANGED proof
    /\ UNCHANGED extVars

(* ------------------------------ the peer ----------------------------- *)

\* a message: a header of HeaderLen bytes ending in the body size, and a body
Response(j, good, b) ==
    [i \in 1..(HeaderLen + b) |->
        [v |-> IF i < HeaderLen THEN (IF good THEN Magic ELSE 0)
               ELSE IF i = HeaderLen THEN b
               ELSE 10 + i,
         of |-> j, pos |-> sent + i]]

\* a monitor frame: 'XE', reserved bytes, the body size, the body
Frame(b) ==
    [i \in 1..(MonHeaderLen + b) |->
        [v |-> IF i = 1 THEN XByte
               ELSE IF i = 2 THEN EByte
               ELSE IF i < MonHeaderLen THEN 0
               ELSE IF i = MonHeaderLen THEN b
               ELSE 20 + i,
         of |-> 0, pos |-> sent + i]]

\* the peer answers the oldest request: a message with a body of b bytes, or
\* a header that does not parse
PeerRespond(good, b) ==
    /\ c2s # <<>>
    /\ good \/ b = 0
    /\ LET j == Head(c2s)
           m == Response(j, good, b)
       IN  /\ s2c' = s2c \o m
           /\ sent' = sent + Len(m)
           /\ respLen' = [respLen EXCEPT ![j] = Len(m)]
    /\ c2s' = Tail(c2s)
    /\ UNCHANGED <<sock, encryption, buffer, reading, rd, monpc, nq, queue_rejects, jpc,
                   linkDone, promise, lock, now, consumed, wrote, started, closedWhileQueued,
                   readOwn, lastRecv, monEvents, pushes>>
    /\ UNCHANGED pairVars
    /\ UNCHANGED proof
    /\ UNCHANGED extVars

\* the peer pushes a monitor frame
PeerPush(b) ==
    /\ pushes < MaxPush
    /\ sock = "open"
    /\ pushes' = pushes + 1
    /\ pushed' = Append(pushed, b)
    /\ s2c' = s2c \o Frame(b)
    /\ sent' = sent + MonHeaderLen + b
    /\ UNCHANGED <<sock, encryption, buffer, reading, rd, monpc, nq, queue_rejects, jpc,
                   linkDone, promise, lock, c2s, now, consumed, wrote, started,
                   closedWhileQueued, respLen, readOwn, lastRecv, monEvents>>
    /\ UNCHANGED pairVars
    /\ UNCHANGED proof
    /\ UNCHANGED <<propVars, monitorJob, srvVars, fnVars, lockCall>>

\* a millisecond passes
Tick ==
    /\ now < MaxTime
    /\ now' = now + 1
    /\ UNCHANGED <<sock, encryption, buffer, reading, rd, monpc, nq, queue_rejects, jpc,
                   linkDone, promise, lock, c2s, s2c, sent, consumed, wrote, started,
                   closedWhileQueued, respLen, readOwn, lastRecv, monEvents, pushes>>
    /\ UNCHANGED pairVars
    /\ UNCHANGED proof
    /\ UNCHANGED extVars

(* ------------------------ property exchanges ------------------------- *)

\* bound: number of properties the requests name
MaxElems == 2

\* bound: number of words one data event carries
MaxChunk == 4

\* HEADER_SIZE of a property element, 12 bytes: the name, the flags, the size
ELEMENT_HEADER_SIZE == 3

\* the exchange under way and the next one queued behind it
PropJobs == {1, 2}

NewPropJob == [kind |-> "none", include_errors |-> "undefined", n |-> 0, pc |-> "new",
               size |-> 0, waiting_for |-> 0, chunks |-> <<>>,
               hdr |-> [name |-> 0, flags |-> 0, size |-> 0],
               props_with_values |-> <<>>, err |-> FALSE, promise |-> "pending",
               threw |-> "none", own |-> 0, first |-> <<>>]

\* Property.packHeader
packHeader(name, flags, size) == <<name, flags, size>>

\* Property.unpackHeader
unpackHeader(header_data) ==
    [name |-> header_data[1], flags |-> header_data[2], size |-> header_data[3]]

\* Property.composeRawElement: the header, then the value
composeRawElement(flags, name, value) == packHeader(name, flags, Len(value)) \o value

\* the value the peer holds for a property: property i is i - 1 words long
ValueOf(name) == [i \in 1..(name - 1) |-> 10 * name + i]

\* Server.getErrorCode
getErrorCode == -10

\* Server.getErrorCodeBuffer: writeInt32BE of the error code, one 32-bit word
\* (words are named by their signed value)
getErrorCodeBuffer == <<getErrorCode>>

\* Property.composeRawElement(0, new Property()): the end of the list, the
\* name '\0\0\0\0' with four zero bytes as its value
Sentinel == composeRawElement(0, 0, <<0>>)

\* the body of a response: an element for each property asked for, flagged
\* with an error code for those in errs, then the end of the list
RECURSIVE ElementsFrom(_, _, _)
ElementsFrom(i, n, errs) ==
    IF i > n THEN Sentinel
    ELSE (IF i \in errs THEN composeRawElement(1, i, getErrorCodeBuffer)
          ELSE composeRawElement(0, i, ValueOf(i))) \o ElementsFrom(i + 1, n, errs)

\* the message the peer sends: a header that ends in the error code, and
\* after a header without error the elements
PropResponse(error_code, n, errs) ==
    [i \in 1..HeaderLen |-> IF i < HeaderLen THEN Magic ELSE error_code]
        \o (IF error_code = 0 THEN ElementsFrom(1, n, errs) ELSE <<>>)

\* the words of a message as they travel: each knows the exchange it answers
\* and its place in the response
Tagged(words, j) == [i \in 1..Len(words) |-> [v |-> words[i], of |-> j, i |-> i]]

\* ClientError.assertOk(response, ...)
assertOk(r) == r.error_code = 0

\* The part of the state that the code of a property exchange reads and writes.
PropCur == [buf |-> pbuf, reading |-> preading, pj |-> pj]

PropApply(P) ==
    /\ pbuf' = P.buf
    /\ preading' = P.reading
    /\ pj' = P.pj

\* Session.queue: the job's promise is settled with what its callback
\* returned or threw, and the next link of the chain runs: the callback of
\* the exchange queued behind it writes its request
PropSettle(P, j, outcome, threw) ==
    LET P1 == [P EXCEPT !.pj[j].pc = "done", !.pj[j].promise = outcome,
                        !.pj[j].threw = threw]
    IN  IF j + 1 \in PropJobs /\ P.pj[j + 1].pc = "queued"
        THEN [P1 EXCEPT !.pj[j + 1].pc = "writing"]
        ELSE P1

\* props_with_values.push(entry) at the head of the list instead of its end
pushEntryFront(list, entry) == <<entry>> \o list

\* props_with_values.push(entry)
pushEntry(list, entry) == Append(list, entry)

RECURSIVE PropBeginReceive(_, _, _)
RECURSIVE PropLoopCheck(_, _)
RECURSIVE PropReturn(_, _)
RECURSIVE PropContinue(_, _, _)
RECURSIVE GetElement(_, _, _)
RECURSIVE SetElement(_, _, _)

\* Session.receiveSize up to its loop, called by a property exchange
PropBeginReceive(P, j, size) ==
    LET got == Take(P.buf, size)
    IN  PropLoopCheck([P EXCEPT !.reading = @ + 1,
                                !.buf = Drop(@, size),
                                !.pj[j].size = size,
                                !.pj[j].waiting_for = size - Len(got),
                                !.pj[j].chunks = got], j)

\* the head of receiveSize's loop: done, or asleep for another millisecond
PropLoopCheck(P, j) ==
    IF P.pj[j].waiting_for > 0 THEN P ELSE PropReturn(P, j)

\* return Buffer.concat(received_chunks), through `finally`
PropReturn(P, j) ==
    LET chunks == P.pj[j].chunks
    IN  PropContinue([P EXCEPT !.reading = @ - 1,
                               !.pj[j].chunks = <<>>,
                               !.pj[j].own = @ + CountOf(chunks, j),
                               !.pj[j].first = IF @ = <<>> /\ chunks # <<>>
                                               THEN <<chunks[1].of, chunks[1].i>>
                                               ELSE @], j, chunks)

\* the end of getProperties: the last error is thrown when include_errors is
\* anything but true
GetFinishThrowUnlessTrue(P, j) ==
    IF P.pj[j].include_errors # "true" /\ P.pj[j].err
    THEN PropSettle(P, j, "rejected", "element")
    ELSE PropSettle(P, j, "resolved", "none")

\* the end of getProperties: the last error is thrown when include_errors
\* was not passed
GetFinish(P, j) ==
    IF P.pj[j].include_errors = "undefined" /\ P.pj[j].err
    THEN PropSettle(P, j, "rejected", "element")
    ELSE PropSettle(P, j, "resolved", "none")

\* a getProperties loop that throws at the flagged element when
\* include_errors was not passed
GetElementThrowAtOnce(P, j, value) ==
    LET h == P.pj[j].hdr
    IN  IF h.flags % 2 = 1
        THEN IF P.pj[j].include_errors = "true"
             THEN PropBeginReceive(
                      [P EXCEPT !.pj[j].pc = "elhdr",
                                !.pj[j].props_with_values =
                                    pushEntry(@, [t |-> "error", name |-> h.name])],
                      j, ELEMENT_HEADER_SIZE)
             ELSE IF P.pj[j].include_errors = "undefined"
                  THEN PropSettle(P, j, "rejected", "element")
                  ELSE PropBeginReceive([P EXCEPT !.pj[j].pc = "elhdr",
                                                  !.pj[j].err = TRUE],
                                        j, ELEMENT_HEADER_SIZE)
        ELSE IF h.name = 0
             THEN GetFinish(P, j)
             ELSE PropBeginReceive(
                      [P EXCEPT !.pj[j].pc = "elhdr",
                                !.pj[j].props_with_values =
                                    pushEntry(@, [t |-> "prop", name |-> h.name])],
                      j, ELEMENT_HEADER_SIZE)

\* the body of getProperties' loop once the element's value is read: a
\* flagged element becomes an Error that is kept or logged, the element
\* named '\0\0\0\0' ends the list, any other becomes a Property
GetElement(P, j, value) ==
    LET h == P.pj[j].hdr
    IN  IF h.flags % 2 = 1
        THEN IF P.pj[j].include_errors = "true"
             THEN PropBeginReceive(
                      [P EXCEPT !.pj[j].pc = "elhdr",
                                !.pj[j].props_with_values =
                                    pushEntry(@, [t |-> "error", name |-> h.name])],
                      j, ELEMENT_HEADER_SIZE)
             ELSE PropBeginReceive([P EXCEPT !.pj[j].pc = "elhdr",
                                             !.pj[j].err = TRUE],
                                   j, ELEMENT_HEADER_SIZE)
        ELSE IF h.name = 0
             THEN GetFinish(P, j)
             ELSE PropBeginReceive(
                      [P EXCEPT !.pj[j].pc = "elhdr",
                                !.pj[j].props_with_values =
                                    pushEntry(@, [t |-> "prop", name |-> h.name])],
                      j, ELEMENT_HEADER_SIZE)

\* the body of setProperties' loop once the element's value is read: a
\* flagged element is thrown at once, the element named '\0\0\0\0' ends the
\* list, any other is added to the response
SetElement(P, j, value) ==
    LET h == P.pj[j].hdr
    IN  IF h.flags % 2 = 1
        THEN PropSettle(P, j, "rejected", "element")
        ELSE IF h.name = 0
             THEN PropSettle(P, j, "resolved", "none")
             ELSE PropBeginReceive(
                      [P EXCEPT !.pj[j].pc = "elhdr",
                                !.pj[j].props_with_values =
                                    pushEntry(@, [t |-> "set", name |-> h.name])],
                      j, ELEMENT_HEADER_SIZE)

\* getProperties and setProperties after a receive returned: the message
\* header is parsed and checked, an element header gives the size of the
\* value to read, a value completes an element
PropContinue(P, j, bytes) ==
    IF P.pj[j].pc = "header"
    THEN IF ~ValidHeader(bytes) THEN PropSettle(P, j, "rejected", "parse")
         ELSE IF ~assertOk([error_code |-> bytes[Len(bytes)].v])
              THEN PropSettle(P, j, "rejected", "header")
         ELSE PropBeginReceive([P EXCEPT !.pj[j].pc = "elhdr"], j, ELEMENT_HEADER_SIZE)
    ELSE IF P.pj[j].pc = "elhdr"
    THEN LET data == unpackHeader(Values(bytes))
         IN  PropBeginReceive([P EXCEPT !.pj[j].pc = "value", !.pj[j].hdr = data],
                              j, data.size)
    ELSE IF P.pj[j].kind = "get" THEN GetElement(P, j, Values(bytes))
         ELSE SetElement(P, j, Values(bytes))

\* the timer of a sleeping receiveSize fires: take what has arrived
PropPoll(P, j) ==
    LET received == Take(P.buf, P.pj[j].waiting_for)
    IN  PropLoopCheck([P EXCEPT !.buf = Drop(@, Len(received)),
                                !.pj[j].waiting_for = @ - Len(received),
                                !.pj[j].chunks = @ \o received], j)

\* Session._handleData and Session.handleData for a buffer that does not
\* start with 'XE': while nobody reads, what arrives is dropped
PropHandleData(P) ==
    IF P.reading = 0 /\ P.buf # <<>>
          /\ ~(Len(P.buf) >= 2 /\ P.buf[1].v = XByte /\ P.buf[2].v = EByte)
    THEN [P EXCEPT !.buf = <<>>]
    ELSE P

\* a connected session with nothing queued
PropInit ==
    /\ pbuf = <<>>
    /\ preading = 0
    /\ pin = <<>>
    /\ pout = <<>>
    /\ pj = [j \in PropJobs |-> NewPropJob]
    /\ presp = [j \in PropJobs |-> [sent |-> FALSE, error_code |-> 0, errs |-> {},
                                    len |-> 0]]

(* ------------------------ the Server's dispatch ---------------------- *)

\* the two connections
Conns == {1, 2}

\* bound: number of messages the clients write
MaxMsgs == 2

\* a message as a client writes it: a header that ends in the body size, and
\* the body; a stream header (body size -1) is followed by one byte of the
\* stream; every byte knows its message
Request(m, b) ==
    [i \in 1..(HeaderLen + (IF b < 0 THEN 1 ELSE b)) |->
        [v |-> IF i < HeaderLen THEN Magic ELSE IF i = HeaderLen THEN b ELSE 30 + i,
         m |-> m]]

\* Server.tryHandleMessage up to the call of handleMessage, with
\* Message.parseRaw(buffer, true): parseRaw throws on less than a header, on
\* a bad header, on a stream header with data attached and on a body cut
\* short, and the catch empties the buffer; a stream header with nothing
\* behind it destroys the socket; a header with nothing behind it is waited
\* for and the buffer is kept; otherwise the message leaves the buffer and
\* is dispatched
tryHandleMessage(buf) ==
    LET h == Take(buf, HeaderLen)
        rest == Drop(buf, HeaderLen)
        size == BodySize(h)
        body == IF size < 0 THEN Take(rest, Len(rest) + size) ELSE Take(rest, size)
    IN  IF Len(buf) < HeaderLen \/ ~ValidHeader(h)
        THEN [kind |-> "error", buf |-> <<>>, m |-> 0, stream |-> FALSE]
        ELSE IF rest # <<>> /\ size = -1
        THEN [kind |-> "error", buf |-> <<>>, m |-> h[1].m, stream |-> TRUE]
        ELSE IF rest # <<>> /\ Len(body) # size
        THEN [kind |-> "error", buf |-> <<>>, m |-> 0, stream |-> FALSE]
        ELSE IF size = -1
        THEN [kind |-> "destroy", buf |-> <<>>, m |-> h[1].m, stream |-> TRUE]
        ELSE IF rest = <<>>
        THEN [kind |-> "wait", buf |-> buf, m |-> 0, stream |-> FALSE]
        ELSE [kind |-> "dispatch", buf |-> Drop(rest, size), m |-> h[1].m,
              stream |-> FALSE]

\* a handleData that starts whatever _handlingData says
AlwaysEnter(flag) == TRUE

\* the test at the head of Server.handleData
MayEnter(flag) == ~flag

\* no connection yet
SrvInit ==
    /\ handlingData = FALSE
    /\ accepted = {}
    /\ destroyed = {}
    /\ streams = {}
    /\ sbuf = [c \in Conns |-> <<>>]
    /\ hrun = [c \in Conns |-> <<>>]
    /\ snet = [c \in Conns |-> <<>>]
    /\ nmsg = 0
    /\ dispatched = [c \in Conns |-> <<>>]
    /\ turnedAway = [c \in Conns |-> 0]
    /\ appendedOnly = TRUE

(* ------------------------ calls of one function ----------------------- *)

\* bound: the status of an RPC response is in -MaxStatus..MaxStatus
MaxStatus == 1

\* before the call returns
NoResult == [returned |-> "nothing"]

\* the properties of the table in properties.ts that the calls name: 1 is of
\* type str and 2 of type u64
SupportedNames == {1, 2}

\* ValueInitialisers.str and ValueInitialisers.u64 for a Buffer of size
\* bytes: str takes any Buffer, u64 one of eight bytes and throws otherwise
InitialiserAccepts(name, size) == name = 1 \/ size = 8

\* the value the Server's getProperty returns for a property
StoredValue(name) == [i \in 1..name |-> 40 + i]

\* the body of a request for the properties names: an element for each, with
\* the values given (Property.composeRawElement's four zero bytes for a
\* Property without value), and the end of the list
RECURSIVE RequestBody(_, _)
RequestBody(names, values) ==
    IF names = <<>> THEN Sentinel
    ELSE composeRawElement(0, Head(names), IF values THEN StoredValue(Head(names)) ELSE <<0>>)
             \o RequestBody(Tail(names), values)

\* Server.handleGetPropertyMessage, the loop over message.body: the names of
\* the elements up to the end of the list
RECURSIVE RequestedProps(_)
RequestedProps(data) ==
    IF data = <<>> THEN <<>>
    ELSE LET h == unpackHeader(Take(data, ELEMENT_HEADER_SIZE))
             rest == Drop(data, Min(ELEMENT_HEADER_SIZE + h.size, Len(data)))
         IN  IF h.name = 0 THEN <<>> ELSE <<h.name>> \o RequestedProps(rest)

\* Server.handleGetPropertyMessage, the loop over the results of
\* getProperties: the elements of the response from the i-th on; it throws
\* when new Property(name, getErrorCodeBuffer(err)) throws because the
\* initialiser of the property's type refuses the four bytes
RECURSIVE ResponseFrom(_, _, _)
ResponseFrom(i, props, throws) ==
    IF i > Len(props) THEN [threw |-> FALSE, words |-> <<>>]
    ELSE LET name == props[i]
             rest == ResponseFrom(i + 1, props, throws)
             element == IF name \in throws
                        THEN composeRawElement(1, name, getErrorCodeBuffer)
                        ELSE composeRawElement(0, name, StoredValue(name))
         IN  IF name \in throws /\ ~InitialiserAccepts(name, 4 * Len(getErrorCodeBuffer))
             THEN [threw |-> TRUE, words |-> <<>>]
             ELSE [threw |-> rest.threw,
                   words |-> IF rest.threw THEN <<>> ELSE element \o rest.words]

\* Server.handleGetPropertyMessage: getProperty is called for each property
\* asked for, and the response is sent when composing it did not throw
handleGetPropertyMessage(message, throws) ==
    LET props == RequestedProps(message.body)
        elements == ResponseFrom(1, props, throws)
    IN  [returned |-> IF elements.threw THEN "threw" ELSE "sent",
         calls |-> [i \in 1..Len(props) |-> [fn |-> "getProperty", name |-> props[i]]],
         body |-> IF elements.threw THEN <<>> ELSE elements.words \o Sentinel]

\* Server.handleMessage: the switch on message.command has a case for
\* AUTHENTICATE, GET_PROPERTY, MONITOR and RPC; any other command is logged
\* as unknown
handleMessage(message, throws) ==
    IF message.command = GET_PROPERTY THEN handleGetPropertyMessage(message, throws)
    ELSE IF message.command = RPC
    THEN [returned |-> "handleRPCMessage", calls |-> <<>>, body |-> <<>>]
    ELSE [returned |-> "unknown command", calls |-> <<>>, body |-> <<>>]

\* Client.rpc after Client.send: the response's error code is checked, then
\* the types of status and outputs in the parsed body
rpc(response) ==
    IF ~assertOk(response) THEN [returned |-> "ClientError", status |-> 0]
    ELSE IF ~response.numeric THEN [returned |-> "InvalidResponseError", status |-> 0]
    ELSE IF ~response.outputs THEN [returned |-> "InvalidResponseError", status |-> 0]
    ELSE [returned |-> "resdata", status |-> response.status]

(* ------------------------- the Message codec ------------------------- *)

\* HEADER_SIZE of a Message, in bytes
HEADER_SIZE == 128

\* HEADER_MAGIC, 'acpp'
HEADER_MAGIC == <<Magic, 99, 112, 112>>

\* n zero bytes
Zeros(n) == [i \in 1..n |-> 0]

\* the sum of weight(i) * bytes[i] for i in lo..hi
RECURSIVE SumOf(_, _, _, _)
SumOf(bytes, lo, hi, weighted) ==
    IF lo > hi THEN 0
    ELSE IF lo = hi THEN (IF weighted THEN Len(bytes) - lo + 1 ELSE 1) * bytes[lo]
    ELSE LET mid == (lo + hi) \div 2
         IN  SumOf(bytes, lo, mid, weighted) + SumOf(bytes, mid + 1, hi, weighted)

\* adler32.sum: a is 1 plus the bytes, b the sum of the values a takes, both
\* modulo 65521; the checksum is b * 65536 + a, kept as the pair of its halves
adler32(bytes) ==
    <<(Len(bytes) + SumOf(bytes, 1, Len(bytes), TRUE)) % 65521,
      (1 + SumOf(bytes, 1, Len(bytes), FALSE)) % 65521>>

\* Buffer.writeInt32BE: the four bytes of a 32-bit two's complement integer
writeInt32BE(v) ==
    <<(v \div 16777216) % 256, (v \div 65536) % 256, (v \div 256) % 256, v % 256>>

\* Buffer.readInt32BE at byte offset at
readInt32BE(data, at) ==
    (IF data[at + 1] >= 128 THEN data[at + 1] - 256 ELSE data[at + 1]) * 16777216
        + data[at + 2] * 65536 + data[at + 3] * 256 + data[at + 4]

\* Buffer.writeUInt32BE of a checksum
writeUInt32BE(sum) ==
    <<sum[1] \div 256, sum[1] % 256, sum[2] \div 256, sum[2] % 256>>

\* Buffer.readUInt32BE of a checksum at byte offset at
readUInt32BE(data, at) ==
    <<data[at + 1] * 256 + data[at + 2], data[at + 3] * 256 + data[at + 4]>>

\* Message.packHeader
packMessageHeader(h) ==
    h.magic \o writeInt32BE(h.version) \o writeUInt32BE(h.header_checksum)
        \o writeUInt32BE(h.body_checksum) \o writeInt32BE(h.body_size)
        \o writeInt32BE(h.flags) \o writeInt32BE(h.unused) \o writeInt32BE(h.command)
        \o writeInt32BE(h.error_code) \o h.pad1 \o h.key \o h.pad2

\* Message.unpackHeader
unpackMessageHeader(data) ==
    [magic |-> SubSeq(data, 1, 4), version |-> readInt32BE(data, 4),
     header_checksum |-> readUInt32BE(data, 8), body_checksum |-> readUInt32BE(data, 12),
     body_size |-> readInt32BE(data, 16), flags |-> readInt32BE(data, 20),
     unused |-> readInt32BE(data, 24), command |-> readInt32BE(data, 28),
     error_code |-> readInt32BE(data, 32), pad1 |-> SubSeq(data, 37, 48),
     key |-> SubSeq(data, 49, 80), pad2 |-> SubSeq(data, 81, 128)]

\* the Message constructor: body is <<>> for no body and <<bytes>> for a
\* body, body_size is <<>> when it is not passed
NewMessage(version, flags, unused, command, error_code, key, body, body_size) ==
    [version |-> version, flags |-> flags, unused |-> unused, command |-> command,
     error_code |-> error_code, key |-> key, body |-> body,
     body_size |-> IF body_size # <<>> THEN body_size[1]
                   ELSE IF body # <<>> THEN Len(body[1]) ELSE -1,
     body_checksum |-> IF body # <<>> THEN adler32(body[1]) ELSE <<0, 1>>]

\* Message.composeHeader: the header packed with checksum 0, then with the
\* checksum of that
composeHeader(m) ==
    LET h == [magic |-> HEADER_MAGIC, version |-> m.version, header_checksum |-> <<0, 0>>,
              body_checksum |-> m.body_checksum, body_size |-> m.body_size,
              flags |-> m.flags, unused |-> m.unused, command |-> m.command,
              error_code |-> m.error_code, key |-> m.key,
              pad1 |-> Zeros(12), pad2 |-> Zeros(48)]
    IN  packMessageHeader([h EXCEPT !.header_checksum = adler32(packMessageHeader(h))])

\* Message.composeRawPacket
composeRawPacket(m) ==
    IF m.body # <<>> THEN composeHeader(m) \o m.body[1] ELSE composeHeader(m)

\* Message.parseRaw(data, false): the Message, or what it throws
parseRaw(data) ==
    IF Len(data) < HEADER_SIZE THEN [threw |-> "Need to pass at least 128 bytes"]
    ELSE LET h == unpackMessageHeader(Take(data, HEADER_SIZE))
             body_data == IF Len(data) > HEADER_SIZE THEN <<Drop(data, HEADER_SIZE)>>
                          ELSE <<>>
         IN  IF h.magic # HEADER_MAGIC THEN [threw |-> "Bad header magic"]
             ELSE IF h.version \notin {1, 196609} THEN [threw |-> "Unknown version"]
             ELSE IF h.header_checksum
                         # adler32(packMessageHeader([h EXCEPT !.header_checksum = <<0, 0>>]))
             THEN [threw |-> "Header checksum does not match"]
             ELSE IF body_data # <<>> /\ h.body_size = -1
             THEN [threw |-> "Cannot handle stream header with data attached"]
             ELSE IF body_data # <<>> /\ h.body_size # Len(body_data[1])
             THEN [threw |-> "Message body size does not match available data"]
             ELSE IF body_data # <<>> /\ h.body_checksum # adler32(body_data[1])
             THEN [threw |-> "Body checksum does not match"]
             ELSE IF h.command \notin ({1, 3, 4, 5, 6} \cup (20..27))
             THEN [threw |-> "Unknown command"]
             ELSE [threw |-> "nothing",
                   message |-> NewMessage(h.version, h.flags, h.unused, h.command,
                                          h.error_code, h.key, body_data, <<h.body_size>>)]

(* ------------------------ the Property codec ------------------------- *)

\* the four characters of the name of property n of the table
ElementName(n) == <<112, 114, 111, 48 + n>>

\* the Property constructor: name and value are <<>> when undefined; the
\* name '\0\0\0\0' makes the empty Property, a name that is not in the
\* table throws, and so does a value its type's initialiser refuses
NewProperty(name, value) ==
    IF name = <<>> \/ name = <<Zeros(4)>>
    THEN [threw |-> "nothing", name |-> <<>>, value |-> <<>>]
    ELSE IF \A n \in SupportedNames : ElementName(n) # name[1]
    THEN [threw |-> "Invalid property name", name |-> <<>>, value |-> <<>>]
    ELSE IF /\ value # <<>>
            /\ ~InitialiserAccepts(CHOOSE n \in SupportedNames : ElementName(n) = name[1],
                                   Len(value[1]))
    THEN [threw |-> "Invalid value", name |-> <<>>, value |-> <<>>]
    ELSE [threw |-> "nothing", name |-> name, value |-> value]

\* Property.packHeader, in bytes
packElementHeader(name, flags, size) ==
    name \o writeUInt32BE(<<0, flags>>) \o writeUInt32BE(<<0, size>>)

\* Property.unpackHeader, in bytes
unpackElementHeader(data) ==
    [name |-> SubSeq(data, 1, 4),
     flags |-> readUInt32BE(data, 4)[1] * 65536 + readUInt32BE(data, 4)[2],
     size |-> readUInt32BE(data, 8)[1] * 65536 + readUInt32BE(data, 8)[2]]

\* a composeRawElement that gives a Property without value no value bytes
composeRawElementNoValue(flags, property) ==
    packElementHeader(IF property.name # <<>> THEN property.name[1] ELSE Zeros(4), flags,
                      IF property.value # <<>> THEN Len(property.value[1]) ELSE 0)
        \o (IF property.value # <<>> THEN property.value[1] ELSE <<>>)

\* Property.composeRawElement, in bytes: the name or '\0\0\0\0', the flags,
\* the size of the value, and the value or four zero bytes
composeRawElementBuffer(flags, property) ==
    LET name == IF property.name # <<>> THEN property.name[1] ELSE Zeros(4)
        value == IF property.value # <<>> THEN property.value[1] ELSE Zeros(4)
    IN  packElementHeader(name, flags, Len(value)) \o value

\* a parseRawElement that takes the whole element as the value
parseRawElementWhole(data) ==
    NewProperty(<<unpackElementHeader(Take(data, 12)).name>>, <<data>>)

\* Property.parseRawElement of a Buffer
parseRawElement(data) ==
    NewProperty(<<unpackElementHeader(Take(data, 12)).name>>, <<Drop(data, 12)>>)

(* ----------------------- the CFLBinaryPList codec --------------------- *)

\* a JavaScript value is a record with one field, named after its type:
\* null, a boolean, an integer number, a Buffer, a string (its UTF-8 bytes),
\* an Array of values, an object (its keys and values in the order of
\* for ... in)
Null == [null |-> 0]

\* a packObject or unpackObject that threw
Threw == [threw |-> TRUE, bytes |-> <<>>, object |-> Null, rest |-> <<>>]

\* CFLBinaryPListComposer.packObject; the loops over the elements of an Array
\* and over the keys of an object are the cases elements and entries
RECURSIVE packObject(_)
packObject(object) ==
    LET bytes(b) == [threw |-> FALSE, bytes |-> b]
        is(type) == type \in DOMAIN object
    IN  CASE is("null") -> bytes(<<0>>)
          [] is("boolean") -> bytes(IF object.boolean THEN <<9>> ELSE <<8>>)
          [] is("number") ->
                LET v == object.number
                IN  IF v < 0 THEN Threw
                    ELSE IF v < 256 THEN bytes(<<16, v>>)
                    ELSE IF v < 65536 THEN bytes(<<17, v \div 256, v % 256>>)
                    ELSE bytes(<<18>> \o writeInt32BE(v))
          [] is("Buffer") -> bytes(<<64 + Len(object.Buffer)>> \o object.Buffer)
          [] is("string") -> bytes(<<112>> \o object.string \o <<0>>)
          [] is("Array") ->
                LET e == packObject([elements |-> object.Array])
                IN  IF e.threw THEN Threw ELSE bytes(<<160>> \o e.bytes \o <<0>>)
          [] is("object") ->
                LET e == packObject([entries |-> object.object])
                IN  IF e.threw THEN Threw ELSE bytes(<<208>> \o e.bytes \o <<0>>)
          [] is("elements") ->
                IF object.elements = <<>> THEN bytes(<<>>)
                ELSE LET e == packObject(Head(object.elements))
                         r == packObject([elements |-> Tail(object.elements)])
                     IN  IF e.threw \/ r.threw THEN Threw ELSE bytes(e.bytes \o r.bytes)
          [] is("entries") ->
                IF object.entries = <<>> THEN bytes(<<>>)
                ELSE LET k == packObject([string |-> Head(object.entries).key])
                         e == packObject(Head(object.entries).value)
                         r == packObject([entries |-> Tail(object.entries)])
                     IN  IF e.threw \/ r.threw THEN Threw
                         ELSE bytes(k.bytes \o e.bytes \o r.bytes)

\* CFLBinaryPListComposer.compose: 'CFB0', the object, 'END!'
composePList(object) ==
    LET e == packObject(object)
    IN  IF e.threw THEN Threw
        ELSE [threw |-> FALSE, bytes |-> <<67, 70, 66, 48>> \o e.bytes \o <<69, 78, 68, 33>>]

\* CFLBinaryPListParser.unpackObject (for Buffers of less than 15 bytes and
\* integers of 1, 2 and 4 bytes); loop is "" for one object, "Array" for the
\* loop that reads elements up to a null and "object" for the loop that reads
\* keys and values up to a null key
RECURSIVE unpackObject(_, _)
unpackObject(data, loop) ==
    LET got(o, rest) == [threw |-> FALSE, object |-> o, rest |-> rest]
        type == data[1] \div 16
        info == data[1] % 16
        d == Tail(data)
    IN  IF loop = "Array"
        THEN LET e == unpackObject(data, "")
                 r == unpackObject(e.rest, "Array")
             IN  IF e.threw THEN Threw
                 ELSE IF e.object = Null THEN got(<<>>, e.rest)
                 ELSE IF r.threw THEN Threw
                 ELSE got(<<e.object>> \o r.object, r.rest)
        ELSE IF loop = "object"
        THEN LET k == unpackObject(data, "")
                 e == unpackObject(k.rest, "")
                 r == unpackObject(e.rest, "object")
             IN  IF k.threw THEN Threw
                 ELSE IF k.object = Null THEN got(<<>>, k.rest)
                 ELSE IF "string" \notin DOMAIN k.object \/ e.threw \/ r.threw THEN Threw
                 ELSE got(<<[key |-> k.object.string, value |-> e.object]>> \o r.object,
                          r.rest)
        ELSE IF data = <<>> THEN Threw
        ELSE CASE type = 0 /\ info = 0 -> got(Null, d)
               [] type = 0 /\ info = 8 -> got([boolean |-> FALSE], d)
               [] type = 0 /\ info = 9 -> got([boolean |-> TRUE], d)
               [] type = 1 /\ info = 0 /\ Len(d) >= 1 -> got([number |-> d[1]], Tail(d))
               [] type = 1 /\ info = 1 /\ Len(d) >= 2 ->
                     got([number |-> d[1] * 256 + d[2]], Drop(d, 2))
               [] type = 1 /\ info = 2 /\ Len(d) >= 4 /\ d[1] < 128 ->
                     got([number |-> readInt32BE(d, 0)], Drop(d, 4))
               [] type = 4 /\ info < 15 -> got([Buffer |-> Take(d, info)], Drop(d, info))
               [] type = 7 ->
                     IF \E i \in 1..Len(d) : d[i] = 0
                     THEN LET size == CHOOSE i \in 1..Len(d) :
                                          d[i] = 0 /\ \A j \in 1..(i - 1) : d[j] # 0
                          IN  got([string |-> Take(d, size - 1)], Drop(d, size))
                     ELSE got([string |-> Take(d, Len(d) - 1)], d)
               [] type = 10 ->
                     LET r == unpackObject(d, "Array")
                     IN  IF r.threw THEN Threw ELSE got([Array |-> r.object], r.rest)
               [] type = 13 ->
                     LET r == unpackObject(d, "object")
                     IN  IF r.threw THEN Threw ELSE got([object |-> r.object], r.rest)
               [] OTHER -> Threw

\* CFLBinaryPListParser.parse
parsePList(data) ==
    LET r == unpackObject(Drop(data, 4), "")
    IN  IF Len(data) < 9 \/ Take(data, 4) # <<67, 70, 66, 48>> THEN Threw
        ELSE IF r.threw \/ Len(r.rest) > 4 \/ r.rest # <<69, 78, 68, 33>> THEN Threw
        ELSE [threw |-> FALSE, bytes |-> <<>>, object |-> r.object, rest |-> r.rest]

(* ------------------------- the firmware parser ------------------------ *)

\* the length of the chunks the image is decrypted in (0x8000 in the code)
chunk_length == 4

\* the length of a block of the cipher (0x10 in the code)
BlockLen == 2

\* the longest image in a firmware file
MaxInner == 5

\* the bytes of the string 'APPLE-FIRMWARE\x00'
FIRMWARE_MAGIC == <<65, 80, 80, 76, 69, 45, 70, 73, 82, 77, 87, 65, 82, 69, 0>>

FIRMWARE_HEADER_SIZE == 32

\* the keys of the base station models 107, 108, 115 and 120
keys ==
    [model \in {107, 108, 115, 120} |->
        CASE model = 107 ->
                 <<82, 73, 195, 81, 2, 139, 241, 253, 43, 209, 132, 158, 40, 178, 63, 36>>
          [] model = 108 ->
                 <<187, 125, 235, 9, 112, 216, 238, 46, 0, 250, 70, 203, 28, 60, 9, 142>>
          [] model = 115 ->
                 <<16, 117, 232, 6, 244, 119, 12, 212, 118, 59, 210, 133, 166, 78, 145, 116>>
          [] OTHER ->
                 <<104, 140, 221, 59, 27, 107, 221, 162, 7, 182, 206, 194, 115, 82, 146, 210>>]

\* deriveKey, for a model that has a key: byte i of the key xor (i + 0x19)
deriveKey(model) == [i \in 1..16 |-> Xor(keys[model][i], (i - 1) + 25)]

\* what an aes-128 decipher makes of one block before the chaining: a
\* permutation of the blocks that the key chooses
decipherBlock(block, key) == [i \in 1..Len(block) |-> (block[i] + 256 - key[i]) % 256]

\* decryptChunk: one decipher in cbc mode over the whole blocks of the chunk,
\* each block xored with the block before it (the iv for the first); what
\* is left after the last whole block is copied as it is
RECURSIVE decryptChunk(_, _, _)
decryptChunk(data, key, iv) ==
    IF Len(data) >= BlockLen
    THEN LET block == Take(data, BlockLen)
         IN  [i \in 1..BlockLen |-> Xor(decipherBlock(block, key)[i], iv[i])]
                 \o decryptChunk(Drop(data, BlockLen), key, block)
    ELSE data

\* the loop of the buffer form of decrypt
RECURSIVE decryptChunks(_, _, _)
decryptChunks(data, key, iv) ==
    IF Len(data) > chunk_length
    THEN decryptChunk(Take(data, chunk_length), key, iv)
             \o decryptChunks(Drop(data, chunk_length), key, iv)
    ELSE decryptChunk(data, key, iv)

\* decrypt(data, model, byte_0x0f), the buffer form
decryptBuffer(data, model, byte_0x0f) ==
    IF model \notin DOMAIN keys THEN [threw |-> "Unknown model", data |-> <<>>]
    ELSE [threw |-> "nothing",
          data |-> decryptChunks(data, deriveKey(model), FIRMWARE_MAGIC \o <<byte_0x0f>>)]

\* the stream decrypt(model, byte_0x0f) returns, for a model that has a key
NewDecryptStream(model, byte_0x0f) ==
    [cipher |-> TRUE, key |-> deriveKey(model), iv |-> FIRMWARE_MAGIC \o <<byte_0x0f>>,
     data |-> <<>>]

\* new stream.PassThrough()
PassThrough == [cipher |-> FALSE, key |-> <<>>, iv |-> <<>>, data |-> <<>>]

\* the loop of the transform of the decrypt stream: the buffers it pushes
\* and the data it keeps
RECURSIVE decryptTransform(_, _)
decryptTransform(ds, data) ==
    IF Len(data) >= chunk_length
    THEN LET r == decryptTransform(ds, Drop(data, chunk_length))
         IN  [stream |-> r.stream,
              pushed |-> <<decryptChunk(Take(data, chunk_length), ds.key, ds.iv)>> \o r.pushed]
    ELSE [stream |-> [ds EXCEPT !.data = data], pushed |-> <<>>]

\* a decrypt stream that decrypts every chunk as it is written
decryptWriteEager(ds, chunk) ==
    IF chunk = <<>> THEN [stream |-> ds, pushed |-> <<>>]
    ELSE IF ~ds.cipher THEN [stream |-> ds, pushed |-> <<chunk>>]
    ELSE [stream |-> ds, pushed |-> <<decryptChunk(chunk, ds.key, ds.iv)>>]

\* decrypt_stream.write(chunk): the stream after it and the buffers its
\* 'data' event carries
decryptWrite(ds, chunk) ==
    IF chunk = <<>> THEN [stream |-> ds, pushed |-> <<>>]
    ELSE IF ~ds.cipher THEN [stream |-> ds, pushed |-> <<chunk>>]
    ELSE decryptTransform(ds, ds.data \o chunk)

\* decrypt_stream.end(): the buffers the flush of the stream pushes
decryptFlush(ds) ==
    IF ds.cipher /\ ds.data # <<>> THEN <<decryptChunk(ds.data, ds.key, ds.iv)>> ELSE <<>>

\* adler32.sum(data, adler): the checksum adler carried on over data
adler32sum(data, adler) ==
    <<(adler[1] + Len(data) * adler[2] + SumOf(data, 1, Len(data), TRUE)) % 65521,
      (adler[2] + SumOf(data, 1, Len(data), FALSE)) % 65521>>

\* parseHeader
parseFirmwareHeader(data) ==
    IF Len(data) # FIRMWARE_HEADER_SIZE
    THEN [threw |-> "Not enough data to parse", byte_0x0f |-> 0, model |-> 0, flags |-> 0]
    ELSE IF Take(data, 15) # FIRMWARE_MAGIC
    THEN [threw |-> "Invalid header", byte_0x0f |-> 0, model |-> 0, flags |-> 0]
    ELSE [threw |-> "nothing", byte_0x0f |-> data[16],
          model |-> data[17] * 16777216 + data[18] * 65536 + data[19] * 256 + data[20],
          flags |-> data[28]]

\* composeHeader
composeFirmwareHeader(h) ==
    FIRMWARE_MAGIC \o <<h.byte_0x0f>> \o writeInt32BE(h.model) \o writeInt32BE(h.version)
        \o <<h.byte_0x18, h.byte_0x19, h.byte_0x1a, h.flags>> \o writeInt32BE(h.unknown_0x1c)

\* flags & 2
Encrypted(flags) == (flags \div 2) % 2 = 1

\* parse(data), the buffer form
parseFirmware(data) ==
    LET header_data == Take(data, FIRMWARE_HEADER_SIZE)
        inner_data == SubSeq(data, FIRMWARE_HEADER_SIZE + 1, Len(data) - 4)
        stored_checksum == readUInt32BE(data, Len(data) - 4)
        h == parseFirmwareHeader(header_data)
        d == IF Encrypted(h.flags) THEN decryptBuffer(inner_data, h.model, h.byte_0x0f)
             ELSE [threw |-> "nothing", data |-> inner_data]
    IN  IF Len(data) < FIRMWARE_HEADER_SIZE + 4
        THEN [threw |-> "Not enough data to parse", data |-> <<>>]
        ELSE IF h.threw # "nothing" THEN [threw |-> h.threw, data |-> <<>>]
        ELSE IF d.threw # "nothing" THEN [threw |-> d.threw, data |-> <<>>]
        ELSE IF adler32(header_data \o d.data) # stored_checksum
        THEN [threw |-> "Bad checksum", data |-> <<>>]
        ELSE [threw |-> "nothing", data |-> d.data]

\* the Transform parse() returns
NewParseStream ==
    [header_data |-> <<>>, header |-> <<>>, decrypt_stream |-> <<>>, last_data |-> <<>>,
     checksum |-> <<0, 1>>, length |-> 0, emitted |-> <<>>, error |-> "nothing"]

\* the 'data' handler of the decrypt stream, for each buffer in turn
RECURSIVE onData(_, _)
onData(t, buffers) ==
    IF buffers = <<>> THEN t
    ELSE onData([t EXCEPT !.emitted = @ \o Head(buffers),
                          !.checksum = adler32sum(Head(buffers), @),
                          !.length = @ + Len(Head(buffers))],
                Tail(buffers))

\* transform(chunk) of the stream form of parse; an exception it throws is
\* the error the stream ends with
parseTransform(t, chunk) ==
    LET take == IF Len(t.header_data) < FIRMWARE_HEADER_SIZE
                THEN Min(Len(chunk), FIRMWARE_HEADER_SIZE - Len(t.header_data))
                ELSE 0
        header_data == t.header_data \o Take(chunk, take)
        rest == Drop(chunk, take)
        opening == t.header = <<>> /\ Len(header_data) = FIRMWARE_HEADER_SIZE
        h == parseFirmwareHeader(header_data)
        t1 == [t EXCEPT !.header_data = header_data,
                        !.checksum = IF opening THEN adler32sum(header_data, @) ELSE @]
        opened == IF ~opening THEN t1
                  ELSE IF h.threw # "nothing" THEN [t1 EXCEPT !.error = h.threw]
                  ELSE IF Encrypted(h.flags) /\ h.model \notin DOMAIN keys
                  THEN [t1 EXCEPT !.header = <<h>>, !.error = "Unknown model"]
                  ELSE [t1 EXCEPT !.header = <<h>>,
                                  !.decrypt_stream =
                                      <<IF Encrypted(h.flags)
                                        THEN NewDecryptStream(h.model, h.byte_0x0f)
                                        ELSE PassThrough>>]
        data == opened.last_data \o rest
        keep == Min(4, Len(data))
        w == decryptWrite(opened.decrypt_stream[1], Take(data, Len(data) - keep))
    IN  IF chunk = <<>> THEN t
        ELSE IF opened.error # "nothing" THEN opened
        ELSE IF opened.decrypt_stream # <<>> /\ rest # <<>>
        THEN onData([opened EXCEPT !.last_data = Drop(data, Len(data) - keep),
                                   !.decrypt_stream = <<w.stream>>],
                    w.pushed)
        ELSE opened

\* flush() of the stream form of parse
parseFlush(t) ==
    LET ended == onData(t, decryptFlush(t.decrypt_stream[1]))
    IN  IF Len(t.last_data) # 4 \/ t.decrypt_stream = <<>>
        THEN [t EXCEPT !.error = "Not enough data to parse"]
        ELSE IF ended.checksum # readUInt32BE(t.last_data, 0)
        THEN [ended EXCEPT !.error = "Bad checksum"]
        ELSE ended

(* ------------------------ the firmware extractor ---------------------- *)

\* the longest input of extract
MaxInput == 5

\* the gzip signature '\x1f\x8b\x08'
header_bytes == <<31, 139, 8>>

\* Buffer.indexOf(value): the offset of the first place value is at, or -1
bufferIndexOf(data, value) ==
    LET at == {i \in 0..(Len(data) - Len(value)) :
                   SubSeq(data, i + 1, i + Len(value)) = value}
    IN  IF at = {} THEN -1 ELSE CHOOSE i \in at : \A j \in at : i <= j

\* the Transform extract() returns, with the bytes written to the gunzip
NewExtractStream == [found_header |-> FALSE, last_data |-> <<>>, written |-> <<>>]

\* a transform that looks for the signature in the chunk alone
extractTransformChunkOnly(t, chunk) ==
    LET gzip_offset == bufferIndexOf(chunk, header_bytes)
    IN  IF chunk = <<>> THEN t
        ELSE IF t.found_header THEN [t EXCEPT !.written = @ \o chunk]
        ELSE IF gzip_offset > -1
        THEN [t EXCEPT !.found_header = TRUE, !.written = @ \o Drop(chunk, gzip_offset)]
        ELSE t

\* transform(chunk) of the stream form of extract
extractTransform(t, chunk) ==
    LET data == t.last_data \o chunk
        gzip_offset == bufferIndexOf(data, header_bytes)
        keep == Min(Len(header_bytes), Len(data))
    IN  IF chunk = <<>> THEN t
        ELSE IF t.found_header THEN [t EXCEPT !.written = @ \o chunk]
        ELSE IF gzip_offset > -1
        THEN [t EXCEPT !.found_header = TRUE, !.written = @ \o Drop(data, gzip_offset)]
        ELSE [t EXCEPT !.last_data = Drop(data, Len(data) - keep)]

(* --------------------------- specifications -------------------------- *)

\* the server has no session yet; the Client has made no call
PairInit ==
    /\ ssock = "none"
    /\ senc = NoEnc
    /\ srp = 0
    /\ authenticating_user = "none"
    /\ nsrp = 0
    /\ authenticating = FALSE
    /\ cq = <<>>
    /\ cjob = [kind |-> "none"]
    /\ ncalls = 0
    /\ lastB = 0
    /\ password_ok \in BOOLEAN
    /\ a_c2s = <<>>
    /\ a_s2c = <<>>
    /\ wire_c2s = <<>>
    /\ wire_s2c = <<>>
    /\ installs = 0
    /\ cinstalls = 0
    /\ m1log = <<>>
    /\ issuedB = 0
    /\ plain_c = <<>>
    /\ plain_s = <<>>
    /\ got_c = <<>>
    /\ got_s = <<>>
    /\ events = [client |-> 0, server |-> 0]
    /\ proof = [failed |-> FALSE, lastAuth |-> "none", sentAfter |-> 0]

InitWith(call) ==
    /\ fin = call
    /\ fdone = FALSE
    /\ fout = NoResult
    /\ firmware = [stream |-> IF call.fn = "firmware.extract" THEN NewExtractStream
                              ELSE NewParseStream,
                   rest |-> IF "file" \in DOMAIN call THEN call.file ELSE <<>>,
                   bytewise |-> TRUE]
    /\ sock = "none"
    /\ encryption = NoEnc
    /\ buffer = <<>>
    /\ reading = 0
    /\ rd = [o \in Owners |-> IdleReader]
    /\ monpc = "idle"
    /\ nq = 0
    /\ queue_rejects = <<>>
    /\ jpc = [j \in Jobs |-> "new"]
    /\ linkDone = [j \in Jobs |-> FALSE]
    /\ promise = [j \in Jobs |-> "pending"]
    /\ lock = [j \in Jobs |-> "none"]
    /\ lockCall = NoLockCall
    /\ c2s = <<>>
    /\ s2c = <<>>
    /\ now = 0
    /\ sent = 0
    /\ consumed = 0
    /\ wrote = {}
    /\ started = <<>>
    /\ closedWhileQueued = {}
    /\ respLen = [j \in Jobs |-> 0]
    /\ readOwn = [j \in Jobs |-> 0]
    /\ lastRecv = NoRecv
    /\ monEvents = <<>>
    /\ pushes = 0
    /\ PairInit
    /\ PropInit
    /\ monitorJob = 0
    /\ pushed = <<>>
    /\ SrvInit

\* no function of the library has been called on its own
Init == InitWith([fn |-> "none"])

\* a session in request/response mode
Next ==
    \/ Connect
    \/ QueueCall
    \/ \E j \in Jobs : LinkStart(j)
    \/ \E j \in Jobs : WriteDone(j)
    \/ \E o \in Owners : PollWake(o)
    \/ \E k \in 1..(HeaderLen + MaxBody) : DataEvent(k)
    \/ CloseEvent
    \/ \E good \in BOOLEAN, b \in 0..MaxBody : PeerRespond(good, b)

vars == <<sessVars, pairVars, proof, extVars>>

Spec == Init /\ [][Next]_vars

\* the same session, with the clock running
NextClock == Next \/ Tick

SpecClock == Init /\ [][NextClock]_vars

\* the same session, with a peer that also pushes monitor frames
NextMon == Next \/ \E b \in 0..MaxBody : PeerPush(b)

SpecMon == Init /\ [][NextMon]_vars

\* bound: number of calls the holders of locks make on them
MaxLockCalls == 1

\* SessionLock.send, SessionLock.receive or SessionLock.receiveMessage called
\* on the lock of job j by whoever kept it, after the job's callback has
\* settled or, for send, while it runs: the call throws (receiveMessage
\* rejects with) 'Lock is no longer valid' when the lock's session is null,
\* and otherwise goes to the Session: Session.send encrypts, throws 'Not
\* connected' without a socket and else hands the bytes to socket.write;
\* Session.receive and the first read of Session.receiveMessage are a
\* receiveSize call for a message header
LockCall(j, method) ==
    /\ lock[j] # "none"
    /\ lockCall.n < MaxLockCalls
    /\ jpc[j] # "done" => (method = "send" /\ jpc[j] # "writing")
    /\ LET valid == lock[j] = "valid"
           S == IF valid /\ method # "send" THEN BeginReceive(Cur, j, HeaderLen)
                ELSE Cur
           written == valid /\ method = "send" /\ sock = "open"
       IN  /\ Apply(S)
           /\ encryption' = IF valid /\ method = "send" /\ encryption # NoEnc
                            THEN encrypt(encryption, <<>>).enc ELSE encryption
           /\ c2s' = IF written THEN Append(c2s, j) ELSE c2s
           /\ wrote' = IF written THEN wrote \cup {j} ELSE wrote
           /\ lockCall' = [n |-> lockCall.n + 1, job |-> j, method |-> method,
                           settled |-> jpc[j] = "done",
                           error |-> IF ~valid THEN "Lock is no longer valid"
                                     ELSE IF method = "send" /\ sock # "open"
                                     THEN "Not connected"
                                     ELSE "none",
                           wrote |-> Len(c2s') - Len(c2s),
                           took |-> S.consumed - consumed]
    /\ UNCHANGED <<sock, nq, queue_rejects, s2c, now, sent, started, closedWhileQueued,
                   respLen, pushes>>
    /\ UNCHANGED <<pairVars, proof, propVars, monitorJob, pushed, srvVars, fnVars>>

\* a session whose jobs keep their locks and call them
NextLock ==
    \/ Next
    \/ \E j \in Jobs, method \in {"send", "receive", "receiveMessage"} : LockCall(j, method)

SpecLock == Init /\ [][NextLock]_vars

\* Client.monitor: the request is a job of Session.queue like any other
\* Client.send, and the Monitor is made when its response is read
MonitorCall ==
    /\ monitorJob = 0
    /\ nq < MaxJobs
    /\ nq' = nq + 1
    /\ queue_rejects' = Append(queue_rejects, nq + 1)
    /\ jpc' = [jpc EXCEPT ![nq + 1] = "queued"]
    /\ monitorJob' = nq + 1
    /\ UNCHANGED <<sock, encryption, buffer, reading, rd, monpc, linkDone, promise, lock,
                   c2s, s2c, now, sent, consumed, wrote, started, closedWhileQueued,
                   respLen, readOwn, lastRecv, monEvents, pushes>>
    /\ UNCHANGED <<pairVars, proof, propVars, pushed, srvVars, fnVars, lockCall>>

\* a Client that may start a monitor session
NextMonitor == Next \/ MonitorCall

SpecMonitor == Init /\ [][NextMonitor]_vars

\* a session that only listens: the peer pushes monitor frames, and the
\* consumer ends the session by closing the socket
NextFrames ==
    \/ Connect
    \/ \E b \in 0..MaxBody : PeerPush(b)
    \/ \E k \in 1..(MonHeaderLen + MaxBody) : DataEvent(k)
    \/ \E o \in Owners : PollWake(o)
    \/ CloseEvent

SpecFrames == Init /\ [][NextFrames]_vars

(* ---------------- the two ends of an encrypted connection ------------- *)

Bytes == 0..MaxByte
Keys == 0..MaxKey
IVs == 0..MaxKey

\* the byte strings of length 1..n
RECURSIVE Strings(_)
Strings(n) ==
    IF n = 0 THEN {}
    ELSE {<<b>> : b \in Bytes} \cup {Append(t, b) : t \in Strings(n - 1), b \in Bytes}

\* a Buffer holding the values vals, the bytes after the first `from` of a stream
Payload(vals, from) == [i \in 1..Len(vals) |-> [v |-> vals[i], of |-> 0, pos |-> from + i]]

NoJob == [kind |-> "none"]

\* Client.connect and Server.handleConnection: both ends have the socket, and
\* the server has a new session for it
PairConnect ==
    /\ sock = "none"
    /\ sock' = "open"
    /\ ssock' = "open"
    /\ UNCHANGED <<encryption, buffer, sessRest>>
    /\ UNCHANGED <<senc, srp, authenticating_user, nsrp, authenticating, cq, cjob, ncalls,
                   lastB, password_ok, a_c2s, a_s2c, wire_c2s, wire_s2c, installs, cinstalls, m1log,
                   issuedB, plain_c, plain_s, got_c, got_s, events>>
    /\ UNCHANGED proof
    /\ UNCHANGED extVars

\* Session.enableEncryption on the client and Session.enableServerEncryption
\* on the server, with the same key and IVs
EnableBoth(key, client_iv, server_iv) ==
    /\ sock = "open" /\ ssock = "open"
    /\ encryption = NoEnc /\ senc = NoEnc
    /\ encryption' = NewEncryption("client", key, client_iv, server_iv)
    /\ senc' = NewEncryption("server", key, client_iv, server_iv)
    /\ UNCHANGED <<sock, buffer, sessRest>>
    /\ UNCHANGED <<ssock, srp, authenticating_user, nsrp, authenticating, cq, cjob, ncalls,
                   lastB, password_ok, a_c2s, a_s2c, wire_c2s, wire_s2c, installs, cinstalls, m1log,
                   issuedB, plain_c, plain_s, got_c, got_s, events>>
    /\ UNCHANGED proof
    /\ UNCHANGED extVars

\* Session.send(data) on the client's Session
ClientSendBytes(vals) ==
    /\ sock = "open"
    /\ encryption # NoEnc
    /\ Len(plain_c) + Len(vals) <= MaxStream
    /\ LET data == Payload(vals, Len(plain_c))
           e == encrypt(encryption, data)
       IN  /\ encryption' = e.enc
           /\ wire_c2s' = wire_c2s \o e.out
           /\ plain_c' = plain_c \o data
    /\ UNCHANGED <<sock, buffer, sessRest>>
    /\ UNCHANGED <<ssock, senc, srp, authenticating_user, nsrp, authenticating, cq, cjob,
                   ncalls, lastB, password_ok, a_c2s, a_s2c, wire_s2c, installs, cinstalls, m1log,
                   issuedB, plain_s, got_c, got_s, events>>
    /\ UNCHANGED proof
    /\ UNCHANGED extVars

\* Session.send(data) on the server's session
ServerSendBytes(vals) ==
    /\ ssock = "open"
    /\ senc # NoEnc
    /\ Len(plain_s) + Len(vals) <= MaxStream
    /\ LET data == Payload(vals, Len(plain_s))
           e == encrypt(senc, data)
       IN  /\ senc' = e.enc
           /\ wire_s2c' = wire_s2c \o e.out
           /\ plain_s' = plain_s \o data
    /\ UNCHANGED <<sock, encryption, buffer, sessRest>>
    /\ UNCHANGED <<ssock, srp, authenticating_user, nsrp, authenticating, cq, cjob, ncalls,
                   lastB, password_ok, a_c2s, a_s2c, wire_c2s, installs, cinstalls, m1log, issuedB,
                   plain_c, got_c, got_s, events>>
    /\ UNCHANGED proof
    /\ UNCHANGED extVars

\* the server socket's 'data' handler receives the next k bytes: it decrypts
\* them and emits them as 'data'
ServerDataEvent(k) ==
    /\ ssock = "open"
    /\ k \in 1..Len(wire_c2s)
    /\ LET raw == Take(wire_c2s, k)
           dec == IF senc # NoEnc THEN decrypt(senc, raw) ELSE [out |-> raw, enc |-> senc]
       IN  /\ senc' = dec.enc
           /\ got_s' = got_s \o dec.out
    /\ wire_c2s' = Drop(wire_c2s, k)
    /\ events' = [events EXCEPT !.server = @ + 1]
    /\ UNCHANGED <<sock, encryption, buffer, sessRest>>
    /\ UNCHANGED <<ssock, srp, authenticating_user, nsrp, authenticating, cq, cjob, ncalls,
                   lastB, password_ok, a_c2s, a_s2c, wire_s2c, installs, cinstalls, m1log, issuedB,
                   plain_c, plain_s, got_c>>
    /\ UNCHANGED proof
    /\ UNCHANGED extVars

\* the client socket's 'data' handler receives the next k bytes: it decrypts
\* them, emits them as 'data' and appends them to the buffer; no read is
\* pending, so the unsolicited handler looks at the buffer
ClientDataEvent(k) ==
    /\ sock = "open"
    /\ reading = 0
    /\ k \in 1..Len(wire_s2c)
    /\ LET raw == Take(wire_s2c, k)
           dec == IF encryption # NoEnc THEN decrypt(encryption, raw)
                  ELSE [out |-> raw, enc |-> encryption]
       IN  /\ encryption' = dec.enc
           /\ got_c' = got_c \o dec.out
           /\ buffer' = HandleLoop([Cur EXCEPT !.buffer = @ \o dec.out]).buffer
    /\ wire_s2c' = Drop(wire_s2c, k)
    /\ events' = [events EXCEPT !.client = @ + 1]
    /\ UNCHANGED <<sock, sessRest>>
    /\ UNCHANGED <<ssock, senc, srp, authenticating_user, nsrp, authenticating, cq, cjob,
                   ncalls, lastB, password_ok, a_c2s, a_s2c, wire_c2s, installs, cinstalls, m1log,
                   issuedB, plain_c, plain_s, got_s>>
    /\ UNCHANGED proof
    /\ UNCHANGED extVars

NextEnc ==
    \/ PairConnect
    \/ \E key \in Keys, client_iv \in IVs, server_iv \in IVs :
           EnableBoth(key, client_iv, server_iv)
    \/ \E vals \in Strings(MaxStream) : ClientSendBytes(vals)
    \/ \E vals \in Strings(MaxStream) : ServerSendBytes(vals)
    \/ \E k \in 1..MaxStream : ServerDataEvent(k)
    \/ \E k \in 1..MaxStream : ClientDataEvent(k)

SpecEnc == Init /\ [][NextEnc]_vars

(* ------------------------- the SRP handshake -------------------------- *)

\* a one-byte stand-in for the bytes of a message: a message advances the
\* cipher that encrypts it and the decipher that decrypts it by its length
Unit == <<[v |-> 0]>>

\* the keystream an encryption context encrypts its next message with
SendKs(e) ==
    IF e = NoEnc THEN <<"plain">>
    ELSE IF e.role = "client" THEN <<e.derived_client_key, e.client_iv, e.client_cipher>>
    ELSE <<e.derived_server_key, e.server_iv, e.server_cipher>>

\* the keystream an encryption context decrypts the next message with
RecvKs(e) ==
    IF e = NoEnc THEN <<"plain">>
    ELSE IF e.role = "client" THEN <<e.derived_server_key, e.server_iv, e.server_decipher>>
    ELSE <<e.derived_client_key, e.client_iv, e.client_decipher>>

\* Session.send(message): the message as it is on the wire, and the context after
SendMessage(e, m) ==
    [msg |-> [m EXCEPT !.ks = SendKs(e)],
     enc |-> IF e = NoEnc THEN e ELSE encrypt(e, Unit).enc]

\* the data handler's decryption of a message: whether what comes out is the
\* message that was sent, and the context after
ReceiveMessage(e, m) ==
    [ok |-> RecvKs(e) = m.ks,
     enc |-> IF e = NoEnc THEN e ELSE decrypt(e, Unit).enc]

\* srp.Server.computeK / srp.Client.computeK: the session key both ends derive
\* from an exchange with the server instance whose public key is B
computeK(B) == B

\* Message.composeAuthCommand with the payload of a stage
AuthRequest(state, username, B, pwok, iv) ==
    [command |-> AUTHENTICATE, state |-> state, username |-> username, B |-> B,
     pwok |-> pwok, iv |-> iv, ks |-> <<>>]

\* the server's replies: the SRP parameters, M2 with the server's IV
AuthReply(kind, B, iv) ==
    [command |-> AUTHENTICATE, error_code |-> 0, kind |-> kind, B |-> B, iv |-> iv,
     ks |-> <<>>]

\* a reply that reports no error
ReplyWithoutError ==
    [command |-> AUTHENTICATE, error_code |-> 0, kind |-> "error", B |-> 0, iv |-> 0,
     ks |-> <<>>]

\* new Message(0x00030001, 5, 0, MessageType.AUTHENTICATE, ErrorCode.INCORRECT_PASSWORD, ...)
IncorrectPasswordReply ==
    [command |-> AUTHENTICATE, error_code |-> INCORRECT_PASSWORD, kind |-> "error",
     B |-> 0, iv |-> 0, ks |-> <<>>]

(* the server's session, as a function: Server.handleAuthenticateMessage *)

SrvCur == [senc |-> senc, srp |-> srp, authenticating_user |-> authenticating_user,
           nsrp |-> nsrp, installs |-> installs, issuedB |-> issuedB, m1log |-> m1log,
           out |-> <<>>, open |-> TRUE]

\* await session.send(reply) on the server's session
SrvSend(V, r) ==
    LET w == SendMessage(V.senc, r)
    IN  [V EXCEPT !.senc = w.enc, !.out = Append(@, w.msg)]

\* data.state === 1
StageOne(V, m) ==
    LET V1 == [V EXCEPT !.authenticating_user = m.username]
    IN  IF m.username # "admin"
        THEN V1  \* no such user: `user!.password!` throws, tryHandleMessage catches
        ELSE LET B == V1.nsrp + 1
                 V2 == [V1 EXCEPT !.nsrp = B, !.srp = B, !.issuedB = B,
                                  !.m1log = Append(@, [state |-> 1, B |-> B, pwok |-> FALSE,
                                                       outcome |-> "params",
                                                       reply |-> AuthReply("params", B, 0),
                                                       open |-> V1.open])]
             IN  SrvSend(V2, AuthReply("params", B, 0))

\* a catch block that keeps the SRP state of the failed attempt
M1FailedKeepsSrp(V, m) ==
    LET V1 == [V EXCEPT !.authenticating_user = "none"]
        V2 == SrvSend(V1, IncorrectPasswordReply)
    IN  [V2 EXCEPT !.m1log = Append(@, [state |-> 3, B |-> m.B, pwok |-> m.pwok,
                                        outcome |-> "rejected",
                                        reply |-> V2.out[Len(V2.out)],
                                        open |-> V2.open])]

\* the catch block of srps.checkM1
M1Failed(V, m) ==
    LET V1 == [V EXCEPT !.authenticating_user = "none", !.srp = 0]
        V2 == SrvSend(V1, IncorrectPasswordReply)
    IN  [V2 EXCEPT !.m1log = Append(@, [state |-> 3, B |-> m.B, pwok |-> m.pwok,
                                        outcome |-> "rejected",
                                        reply |-> V2.out[Len(V2.out)],
                                        open |-> V2.open])]

\* data.state === 3 && session.srp: srps.setA, srps.checkM1, and on success M2,
\* the server's IV and session.enableServerEncryption
StageThree(V, m, iv) ==
    IF ~(m.pwok /\ m.B = V.srp)
    THEN M1Failed(V, m)
    ELSE LET r == AuthReply("m2", V.srp, iv)
             V1 == SrvSend(V, r)
         IN  [V1 EXCEPT !.senc = NewEncryption("server", computeK(V.srp), m.iv, iv),
                        !.installs = @ + 1,
                        !.m1log = Append(@, [state |-> 3, B |-> m.B, pwok |-> m.pwok,
                                             outcome |-> "accepted",
                                             reply |-> V1.out[Len(V1.out)],
                                             open |-> V1.open])]

\* Server.handleAuthenticateMessage
handleAuthenticateMessage(V, m, iv) ==
    IF m.state = 1 THEN StageOne(V, m)
    ELSE IF m.state = 3 /\ V.srp # 0 THEN StageThree(V, m, iv)
    ELSE [V EXCEPT !.m1log = Append(@, [state |-> 3, B |-> m.B, pwok |-> m.pwok,
                                        outcome |-> "ignored", reply |-> ReplyWithoutError,
                                        open |-> V.open])]

\* the server socket's 'data' handler receives a whole message: it decrypts it,
\* Server.handleData parses it (what does not parse is dropped with the buffer)
\* and Server.handleMessage dispatches it
ServerMessage(iv) ==
    /\ ssock = "open"
    /\ a_c2s # <<>>
    /\ LET m == Head(a_c2s)
           d == ReceiveMessage(senc, m)
           V0 == [SrvCur EXCEPT !.senc = d.enc]
           V == IF ~d.ok THEN V0
                ELSE IF m.command = AUTHENTICATE THEN handleAuthenticateMessage(V0, m, iv)
                ELSE SrvSend(V0, [ReplyWithoutError EXCEPT !.command = m.command])
       IN  /\ senc' = V.senc
           /\ srp' = V.srp
           /\ authenticating_user' = V.authenticating_user
           /\ nsrp' = V.nsrp
           /\ installs' = V.installs
           /\ issuedB' = V.issuedB
           /\ m1log' = V.m1log
           /\ a_s2c' = a_s2c \o V.out
           /\ ssock' = IF V.open THEN "open" ELSE "closed"
    /\ a_c2s' = Tail(a_c2s)
    /\ UNCHANGED <<sock, encryption, buffer, sessRest>>
    /\ UNCHANGED <<authenticating, cq, cjob, ncalls, lastB, password_ok, wire_c2s, wire_s2c,
                   cinstalls, plain_c, plain_s, got_c, got_s, events>>
    /\ UNCHANGED proof
    /\ UNCHANGED extVars

(* the Client, as a function: Session.queue, Client.send, Client.authenticate *)

\* a command composed with the password whatever the session
composeCommandWithPassword(command, session_encrypted) ==
    [command |-> command, state |-> 0, username |-> "none", B |-> 0, pwok |-> FALSE,
     iv |-> 0, ks |-> <<>>, key |-> "password", composed_encrypted |-> session_encrypted]

\* Message.compose...Command(flags, this.session_encrypted ? null : this.password,
\* payload): the key of the header is 32 zero bytes without a password and
\* generateACPHeaderKey(password) with one; composed_encrypted is history,
\* what session_encrypted was when the message was composed
composeCommand(command, session_encrypted) ==
    [command |-> command, state |-> 0, username |-> "none", B |-> 0, pwok |-> FALSE,
     iv |-> 0, ks |-> <<>>, key |-> IF session_encrypted THEN "zero" ELSE "password",
     composed_encrypted |-> session_encrypted]

CliCur == [enc |-> encryption, authenticating |-> authenticating, cq |-> cq, cjob |-> cjob,
           lastB |-> lastB, cinstalls |-> cinstalls, out |-> <<>>, open |-> sock = "open",
           proof |-> proof]

\* session.send(message) in a job, which throws 'Not connected' without a socket
CliSend(C, m) ==
    LET w == SendMessage(C.enc, m)
    IN  [C EXCEPT !.enc = w.enc, !.out = Append(@, w.msg),
                  !.proof.sentAfter = IF C.proof.failed THEN @ + 1 ELSE @]

\* the links of the Session._queue chain that are ready run, one after the
\* other, until a job waits for the socket
RECURSIVE Drain(_)
Drain(C) ==
    IF C.cjob # NoJob \/ C.cq = <<>> THEN C
    ELSE LET j == Head(C.cq)
             C1 == [C EXCEPT !.cq = Tail(@)]
         IN  IF j.kind = "authenticate"
             THEN IF C1.enc # NoEnc THEN Drain(C1)  \* 'Encryption is already enabled.'
                  ELSE IF C1.authenticating THEN Drain(C1)
                  ELSE IF ~C1.open THEN Drain(C1)   \* 'Not connected'
                  ELSE CliSend([C1 EXCEPT !.authenticating = TRUE,
                                          !.cjob = [kind |-> "authenticate",
                                                    pc |-> "stage2", B |-> 0, iv |-> 0]],
                               AuthRequest(1, "admin", 0, FALSE, 0))
             ELSE IF ~C1.open THEN Drain(C1)        \* 'Not connected'
                  ELSE CliSend([C1 EXCEPT !.cjob = [kind |-> "send", pc |-> "reply",
                                                    B |-> 0, iv |-> 0]],
                               IF j.kind = "compose"
                               THEN composeCommand(j.command, C1.enc # NoEnc)
                               ELSE j.msg)

\* the running job settles; the next link of the chain runs
JobEnds(C) ==
    Drain([C EXCEPT !.cjob = NoJob,
                    !.authenticating = IF C.cjob.kind = "authenticate" THEN FALSE ELSE @])

\* Client.authenticateStageOne after its receiveMessage, and authenticateStageThree
\* up to its receiveMessage
AfterStageTwo(C, r, pwok, iv) ==
    IF ~assertOk(r) \/ r.kind # "params"
    THEN JobEnds([C EXCEPT !.proof.lastAuth = "rejected"])
    ELSE CliSend([C EXCEPT !.cjob = [kind |-> "authenticate", pc |-> "stage4",
                                     B |-> r.B, iv |-> iv],
                           !.lastB = r.B],
                 AuthRequest(3, "admin", r.B, pwok, iv))

\* srpc.checkM2(data.response) does not throw: the reply carries the proof of the
\* server instance the job answered
checkM2(job, r) == r.kind = "m2" /\ r.B = job.B

\* a client that never enables encryption after the fourth stage
AfterStageFourNoEncryption(C, r) ==
    IF ~assertOk(r) THEN JobEnds([C EXCEPT !.proof.lastAuth = "rejected"])
    ELSE IF ~checkM2(C.cjob, r)
         THEN JobEnds([C EXCEPT !.proof.failed = TRUE, !.proof.lastAuth = "rejected"])
    ELSE JobEnds([C EXCEPT !.proof.lastAuth = "resolved"])

\* Client.authenticateStageThree after its receiveMessage, and authenticateStageFive
AfterStageFour(C, r) ==
    IF ~assertOk(r) THEN JobEnds([C EXCEPT !.proof.lastAuth = "rejected"])
    ELSE IF ~checkM2(C.cjob, r)
         THEN JobEnds([C EXCEPT !.proof.failed = TRUE, !.proof.lastAuth = "rejected"])
    ELSE JobEnds([C EXCEPT !.enc = NewEncryption("client", computeK(r.B), C.cjob.iv, r.iv),
                           !.cinstalls = @ + 1, !.proof.lastAuth = "resolved"])

\* the job that waits for a message receives it
JobReceives(C, r, ok, pwok, iv) ==
    IF ~ok THEN JobEnds(C)  \* the header does not parse
    ELSE IF C.cjob.kind = "send"
         THEN JobEnds([C EXCEPT !.lastB = IF r.kind = "params" THEN r.B ELSE @])
    ELSE IF C.cjob.pc = "stage2" THEN AfterStageTwo(C, r, pwok, iv)
    ELSE AfterStageFour(C, r)

CliApply(C) ==
    /\ encryption' = C.enc
    /\ authenticating' = C.authenticating
    /\ cq' = C.cq
    /\ cjob' = C.cjob
    /\ lastB' = C.lastB
    /\ cinstalls' = C.cinstalls
    /\ proof' = C.proof
    /\ a_c2s' = a_c2s \o C.out

\* Client.authenticate()
AuthenticateCall ==
    /\ ncalls < MaxCalls
    /\ ncalls' = ncalls + 1
    /\ CliApply(Drain([CliCur EXCEPT !.cq = Append(@, [kind |-> "authenticate"])]))
    /\ UNCHANGED <<sock, buffer, sessRest>>
    /\ UNCHANGED <<ssock, senc, srp, authenticating_user, nsrp, password_ok, a_s2c, wire_c2s,
                   wire_s2c, installs, m1log, issuedB, plain_c, plain_s, got_c, got_s,
                   events>>
    /\ UNCHANGED extVars

\* Client.send(message) with an AUTHENTICATE message the caller composed; a
\* stage-three message answers the last B the caller saw
SendCall(m) ==
    /\ ncalls < MaxCalls
    /\ ncalls' = ncalls + 1
    /\ LET msg == IF m.state = 3 THEN [m EXCEPT !.B = lastB] ELSE m
       IN  CliApply(Drain([CliCur EXCEPT !.cq = Append(@, [kind |-> "send", msg |-> msg])]))
    /\ UNCHANGED <<sock, buffer, sessRest>>
    /\ UNCHANGED <<ssock, senc, srp, authenticating_user, nsrp, password_ok, a_s2c, wire_c2s,
                   wire_s2c, installs, m1log, issuedB, plain_c, plain_s, got_c, got_s,
                   events>>
    /\ UNCHANGED extVars

\* the client socket's 'data' handler receives a whole message: it decrypts it;
\* the job that is waiting in receiveMessage takes it, or, when no read is
\* pending, the unsolicited handler drops it
ClientMessage(iv) ==
    /\ sock = "open"
    /\ a_s2c # <<>>
    /\ LET r == Head(a_s2c)
           d == ReceiveMessage(encryption, r)
           C0 == [CliCur EXCEPT !.enc = d.enc]
       IN  CliApply(IF cjob = NoJob THEN C0 ELSE JobReceives(C0, r, d.ok, password_ok, iv))
    /\ a_s2c' = Tail(a_s2c)
    /\ UNCHANGED <<sock, buffer, sessRest>>
    /\ UNCHANGED <<ssock, senc, srp, authenticating_user, nsrp, ncalls, password_ok, wire_c2s,
                   wire_s2c, installs, m1log, issuedB, plain_c, plain_s, got_c, got_s,
                   events>>
    /\ UNCHANGED extVars

\* the socket closes: the 'close' handlers of both ends
PairClose ==
    /\ sock = "open"
    /\ sock' = "closed"
    /\ encryption' = NoEnc
    /\ ssock' = "closed"
    /\ a_c2s' = <<>>
    /\ a_s2c' = <<>>
    /\ wire_c2s' = <<>>
    /\ wire_s2c' = <<>>
    /\ UNCHANGED <<buffer, sessRest>>
    /\ UNCHANGED <<senc, srp, authenticating_user, nsrp, authenticating, cq, cjob, ncalls,
                   lastB, password_ok, installs, cinstalls, m1log, issuedB, plain_c,
                   plain_s, got_c, got_s, events>>
    /\ UNCHANGED proof
    /\ UNCHANGED extVars

\* the AUTHENTICATE messages a caller composes: stage one for a user, stage
\* three with a proof computed from the right or from a wrong password
CallerMessages ==
    {AuthRequest(1, u, 0, FALSE, 0) : u \in {"admin", "nobody"}}
        \cup {AuthRequest(3, "admin", 0, ok, iv) : ok \in BOOLEAN, iv \in IVs}

\* Client.monitor and Client.rpc compose their request and pass it to
\* Client.send; getProperties, setProperties and flashPrimary queue a job
\* that composes its request when it runs
CommandCall(command) ==
    /\ ncalls < MaxCalls
    /\ ncalls' = ncalls + 1
    /\ LET job == IF command \in {MONITOR, RPC}
                  THEN [kind |-> "send", msg |-> composeCommand(command, encryption # NoEnc)]
                  ELSE [kind |-> "compose", command |-> command]
       IN  CliApply(Drain([CliCur EXCEPT !.cq = Append(@, job)]))
    /\ UNCHANGED <<sock, buffer, sessRest>>
    /\ UNCHANGED <<ssock, senc, srp, authenticating_user, nsrp, password_ok, a_s2c, wire_c2s,
                   wire_s2c, installs, m1log, issuedB, plain_c, plain_s, got_c, got_s,
                   events>>
    /\ UNCHANGED extVars

NextAuth ==
    \/ PairConnect
    \/ AuthenticateCall
    \/ \E m \in CallerMessages : SendCall(m)
    \/ \E iv \in IVs : ServerMessage(iv)
    \/ \E iv \in IVs : ClientMessage(iv)
    \/ PairClose

SpecAuth == Init /\ [][NextAuth]_vars

\* a Client whose caller authenticates and sends commands
NextKey ==
    \/ PairConnect
    \/ AuthenticateCall
    \/ \E command \in {GET_PROPERTY, SET_PROPERTY, MONITOR, RPC, FLASH_PRIMARY} :
           CommandCall(command)
    \/ \E iv \in IVs : ServerMessage(iv)
    \/ \E iv \in IVs : ClientMessage(iv)
    \/ PairClose

SpecKey == Init /\ [][NextKey]_vars

\* a peer that does not know the password answers a state-3 message with an
\* M2 that does not verify
PeerBadM2(iv) ==
    /\ ssock = "open"
    /\ a_c2s # <<>>
    /\ Head(a_c2s).state = 3
    /\ a_c2s' = Tail(a_c2s)
    /\ a_s2c' = Append(a_s2c, SendMessage(NoEnc, AuthReply("m2", 0, iv)).msg)
    /\ UNCHANGED <<sock, encryption, buffer, sessRest>>
    /\ UNCHANGED <<ssock, senc, srp, authenticating_user, nsrp, authenticating, cq, cjob,
                   ncalls, lastB, password_ok, wire_c2s, wire_s2c, installs, cinstalls,
                   m1log, issuedB, plain_c, plain_s, got_c, got_s, events>>
    /\ UNCHANGED proof
    /\ UNCHANGED extVars

\* the handshake against a server that may not know the password
NextProof == NextAuth \/ \E iv \in IVs : PeerBadM2(iv)

SpecProof == Init /\ [][NextProof]_vars

(* ------------------- getProperties and setProperties ------------------ *)

\* Client.getProperties(props, include_errors) or Client.setProperties(props)
\* for the properties 1..MaxElems: Session.queue adds the job, and with
\* nothing ahead of it in the chain its callback runs and writes the request
PropCall(kind, include_errors) ==
    /\ kind = "set" => include_errors = "undefined"
    /\ \E j \in PropJobs :
        /\ pj[j].pc = "new"
        /\ \A i \in PropJobs : i < j => pj[i].pc # "new"
        /\ pj' = [pj EXCEPT ![j].kind = kind,
                            ![j].include_errors = include_errors,
                            ![j].n = MaxElems,
                            ![j].pc = IF \A i \in PropJobs : i < j => pj[i].pc = "done"
                                      THEN "writing" ELSE "queued"]
    /\ UNCHANGED <<pbuf, preading, pin, pout, presp>>
    /\ UNCHANGED <<sessVars, pairVars, proof, monitorJob, pushed, srvVars, fnVars, lockCall>>

\* the callback of socket.write: the request is on the wire and the exchange
\* starts to read the header of the response
PropWriteDone(j) ==
    /\ pj[j].pc = "writing"
    /\ pout' = Append(pout, j)
    /\ PropApply(PropBeginReceive([PropCur EXCEPT !.pj[j].pc = "header"], j, HeaderLen))
    /\ UNCHANGED <<pin, presp>>
    /\ UNCHANGED <<sessVars, pairVars, proof, monitorJob, pushed, srvVars, fnVars, lockCall>>

\* the 1 ms timer of the exchange's receiveSize call fires
PropPollWake(j) ==
    /\ pj[j].pc \in {"header", "elhdr", "value"}
    /\ PropApply(PropPoll(PropCur, j))
    /\ UNCHANGED <<pin, pout, presp>>
    /\ UNCHANGED <<sessVars, pairVars, proof, monitorJob, pushed, srvVars, fnVars, lockCall>>

\* the socket's 'data' handler, for a chunk of k words
PropDataEvent(k) ==
    /\ k \in 1..Len(pin)
    /\ PropApply(PropHandleData([PropCur EXCEPT !.buf = @ \o Take(pin, k)]))
    /\ pin' = Drop(pin, k)
    /\ UNCHANGED <<pout, presp>>
    /\ UNCHANGED <<sessVars, pairVars, proof, monitorJob, pushed, srvVars, fnVars, lockCall>>

\* the peer answers the oldest request: an error in the message header, or
\* the elements, those of the properties in errs flagged
PropPeerRespond(error_code, errs) ==
    /\ pout # <<>>
    /\ LET j == Head(pout)
           m == PropResponse(error_code, pj[j].n, errs)
       IN  /\ errs \subseteq 1..pj[j].n
           /\ error_code # 0 => errs = {}
           /\ pin' = pin \o Tagged(m, j)
           /\ presp' = [presp EXCEPT ![j] = [sent |-> TRUE, error_code |-> error_code,
                                             errs |-> errs, len |-> Len(m)]]
    /\ pout' = Tail(pout)
    /\ UNCHANGED <<pbuf, preading, pj>>
    /\ UNCHANGED <<sessVars, pairVars, proof, monitorJob, pushed, srvVars, fnVars, lockCall>>

\* a session that carries property exchanges
NextProps ==
    \/ \E kind \in {"get", "set"}, include_errors \in {"true", "false", "undefined"} :
          PropCall(kind, include_errors)
    \/ \E j \in PropJobs : PropWriteDone(j)
    \/ \E j \in PropJobs : PropPollWake(j)
    \/ \E k \in 1..MaxChunk : PropDataEvent(k)
    \/ \E error_code \in {0, INCORRECT_PASSWORD}, errs \in SUBSET (1..MaxElems) :
          PropPeerRespond(error_code, errs)

\* the Client's password plays no part in these exchanges
InitProps == Init /\ password_ok

SpecProps == InitProps /\ [][NextProps]_vars

(* ----------------------- the Server's connections --------------------- *)

\* Server.handleConnection: a session for a new connection
SrvAccept(c) ==
    /\ c \notin accepted
    /\ accepted' = accepted \cup {c}
    /\ UNCHANGED <<handlingData, sbuf, hrun, snet, nmsg, dispatched, turnedAway,
                   appendedOnly, destroyed, streams>>
    /\ UNCHANGED <<sessVars, pairVars, proof, propVars, monitorJob, pushed, fnVars, lockCall>>

\* the client of connection c writes a message with a body of b bytes, or
\* with b = -1 a stream header and a byte of the stream
ClientWrite(c, b) ==
    /\ c \in accepted
    /\ c \notin destroyed
    /\ nmsg < MaxMsgs
    /\ nmsg' = nmsg + 1
    /\ snet' = [snet EXCEPT ![c] = @ \o Request(nmsg + 1, b)]
    /\ UNCHANGED <<handlingData, accepted, sbuf, hrun, dispatched, turnedAway,
                   appendedOnly, destroyed, streams>>
    /\ UNCHANGED <<sessVars, pairVars, proof, propVars, monitorJob, pushed, fnVars, lockCall>>

\* the 'data' handler of connection c for a chunk of k bytes, and
\* Server.handleData up to its first wait: the chunk joins the buffer; with
\* _handlingData set that is all; otherwise tryHandleMessage runs, and either
\* a handler starts or the loop ends and the flag is cleared
SrvDataEvent(c, k) ==
    /\ c \in accepted
    /\ c \notin destroyed
    /\ k \in 1..Len(snet[c])
    /\ snet' = [snet EXCEPT ![c] = Drop(@, k)]
    /\ LET buf == sbuf[c] \o Take(snet[c], k)
           r == tryHandleMessage(buf)
       IN  IF ~MayEnter(handlingData)
           THEN /\ sbuf' = [sbuf EXCEPT ![c] = buf]
                /\ turnedAway' =
                      IF hrun[c] = <<>>
                      THEN [turnedAway EXCEPT
                               ![c] = CHOOSE d \in Conns : d # c /\ hrun[d] # <<>>]
                      ELSE turnedAway
                /\ UNCHANGED <<handlingData, hrun, dispatched, appendedOnly,
                               destroyed, streams>>
           ELSE /\ sbuf' = [sbuf EXCEPT ![c] = r.buf]
                /\ appendedOnly' = (appendedOnly /\ hrun[c] = <<>>)
                /\ destroyed' = IF r.kind = "destroy" THEN destroyed \cup {c}
                                ELSE destroyed
                /\ streams' = IF r.stream THEN streams \cup {[c |-> c, m |-> r.m]}
                              ELSE streams
                /\ IF r.kind = "dispatch"
                   THEN /\ handlingData' = TRUE
                        /\ hrun' = [hrun EXCEPT ![c] = Append(@, [bytes |-> Len(buf)])]
                        /\ dispatched' = [dispatched EXCEPT ![c] = Append(@, r.m)]
                   ELSE /\ handlingData' = FALSE
                        /\ UNCHANGED <<hrun, dispatched>>
                /\ UNCHANGED turnedAway
    /\ UNCHANGED <<accepted, nmsg>>
    /\ UNCHANGED <<sessVars, pairVars, proof, propVars, monitorJob, pushed, fnVars, lockCall>>

\* the handler of a message of connection c returns (the write of its reply
\* has completed), and Server.handleData goes on: it tries the buffer again
\* if the buffer holds a header and has grown past what it held before the
\* message, otherwise it clears the flag
SrvHandlerDone(c) ==
    /\ hrun[c] # <<>>
    /\ LET bytes == Head(hrun[c]).bytes
           buf == sbuf[c]
           again == Len(buf) >= HeaderLen /\ bytes < Len(buf)
           r == tryHandleMessage(buf)
       IN  IF again /\ r.kind = "dispatch"
           THEN /\ sbuf' = [sbuf EXCEPT ![c] = r.buf]
                /\ hrun' = [hrun EXCEPT ![c] = Append(Tail(@), [bytes |-> Len(buf)])]
                /\ dispatched' = [dispatched EXCEPT ![c] = Append(@, r.m)]
                /\ UNCHANGED <<handlingData, destroyed, streams>>
           ELSE /\ sbuf' = [sbuf EXCEPT ![c] = IF again THEN r.buf ELSE buf]
                /\ hrun' = [hrun EXCEPT ![c] = Tail(@)]
                /\ handlingData' = FALSE
                /\ destroyed' = IF again /\ r.kind = "destroy"
                                THEN destroyed \cup {c} ELSE destroyed
                /\ streams' = IF again /\ r.stream
                              THEN streams \cup {[c |-> c, m |-> r.m]} ELSE streams
                /\ UNCHANGED dispatched
    /\ UNCHANGED <<accepted, snet, nmsg, turnedAway, appendedOnly>>
    /\ UNCHANGED <<sessVars, pairVars, proof, propVars, monitorJob, pushed, fnVars, lockCall>>

\* a Server with two clients
NextServer ==
    \/ \E c \in Conns : SrvAccept(c)
    \/ \E c \in Conns, b \in (-1)..MaxBody : ClientWrite(c, b)
    \/ \E c \in Conns, k \in 1..(MaxMsgs * (HeaderLen + MaxBody)) : SrvDataEvent(c, k)
    \/ \E c \in Conns : SrvHandlerDone(c)

SpecServer == InitProps /\ [][NextServer]_vars

(* ------------------------ calls of one function ----------------------- *)

\* the lists of at most MaxElems supported properties
NameLists == UNION {[1..n -> SupportedNames] : n \in 0..MaxElems}

\* Server.handleMessage with a GET_PROPERTY, SET_PROPERTY or RPC message for
\* the properties names; the Server's getProperty and setProperty throw for
\* the properties in throws
HandleMessageCalls ==
    {[fn |-> "handleMessage",
      message |-> [command |-> c, body |-> RequestBody(names, c = SET_PROPERTY)],
      names |-> names, throws |-> throws] :
        c \in {GET_PROPERTY, SET_PROPERTY, RPC}, names \in NameLists,
        throws \in SUBSET SupportedNames}

\* Client.rpc with the response the peer sent
RpcCalls ==
    {[fn |-> "rpc",
      response |-> [error_code |-> e, numeric |-> n, status |-> st, outputs |-> o]] :
        e \in {0, getErrorCode}, n \in BOOLEAN, st \in (-MaxStatus)..MaxStatus,
        o \in BOOLEAN}

\* everything but the call's own variables stays
\* the byte strings of at most n bytes
BytesUpTo(n) == UNION {[1..k -> 0..MaxByte] : k \in 0..n}

\* the Messages the composers of the library make: version 0x00030001 or 1,
\* a key of 32 bytes, no body or a body of at most MaxBody bytes with its
\* size
Messages ==
    {NewMessage(version, flags, 0, command, error_code, key, body, <<>>) :
        version \in {1, 196609}, flags \in {-1, 0, 4},
        command \in {GET_PROPERTY, AUTHENTICATE}, error_code \in {0, getErrorCode},
        key \in {Zeros(32), [i \in 1..32 |-> 8 * i - 1]},
        body \in {<<>>} \cup {<<b>> : b \in BytesUpTo(MaxBody)}}

\* the Properties the constructor makes: the empty one, and those of the
\* table without a value or with a value of their type
Properties ==
    {NewProperty(<<>>, <<>>)}
        \cup {NewProperty(<<ElementName(n)>>, <<>>) : n \in SupportedNames}
        \cup {NewProperty(<<ElementName(1)>>, <<b>>) : b \in BytesUpTo(MaxBody)}
        \cup {NewProperty(<<ElementName(2)>>, <<[i \in 1..8 |-> IF i <= k THEN b ELSE 0]>>) :
                  k \in 1..8, b \in 0..MaxByte}

\* the values without elements: null, the booleans, integers around the
\* sizes packObject writes, Buffers and strings of a few bytes
Atoms ==
    {Null, [boolean |-> FALSE], [boolean |-> TRUE]}
        \cup {[number |-> n] : n \in {-1, 0, MaxByte, 255, 256, 65535, 65536}}
        \cup {[Buffer |-> b] : b \in BytesUpTo(MaxBody)}
        \cup {[string |-> c] : c \in {<<>>, <<97>>, <<98, 99>>}}

\* the Arrays of at most MaxElems of these
Arrays == {[Array |-> e] : e \in UNION {[1..n -> Atoms] : n \in 0..MaxElems}}

\* the values CFLBinaryPList.compose is called with: the atoms, their
\* Arrays, and objects with one key whose value is an atom or an Array of one
PListValues ==
    Atoms \cup Arrays
        \cup {[object |-> <<[key |-> <<107>>, value |-> x]>>] :
                 x \in Atoms \cup {[Array |-> <<a>>] : a \in Atoms}}

CallOnly == UNCHANGED <<fin, firmware, sessVars, pairVars, proof, propVars, monitorJob, pushed, srvVars, lockCall>>

CallHandleMessage ==
    /\ fin.fn = "handleMessage"
    /\ ~fdone
    /\ fdone' = TRUE
    /\ fout' = handleMessage(fin.message, fin.throws)
    /\ CallOnly

CallRpc ==
    /\ fin.fn = "rpc"
    /\ ~fdone
    /\ fdone' = TRUE
    /\ fout' = rpc(fin.response)
    /\ CallOnly

\* Message.parseRaw of the packet Message.composeRawPacket makes of a Message
CallParseRaw ==
    /\ fin.fn = "parseRaw"
    /\ ~fdone
    /\ fdone' = TRUE
    /\ fout' = parseRaw(composeRawPacket(fin.message))
    /\ CallOnly

\* Property.composeRawElement(0, property), and Property.parseRawElement of
\* what it returns
CallParseRawElement ==
    /\ fin.fn = "parseRawElement"
    /\ ~fdone
    /\ fdone' = TRUE
    /\ fout' = [composed |-> composeRawElementBuffer(0, fin.property),
                parsed |-> parseRawElement(composeRawElementBuffer(0, fin.property))]
    /\ CallOnly

\* CFLBinaryPList.compose(object), and CFLBinaryPList.parse of what it
\* returns
CallParsePList ==
    /\ fin.fn = "CFLBinaryPList.parse"
    /\ ~fdone
    /\ fdone' = TRUE
    /\ fout' = IF composePList(fin.object).threw THEN Threw
               ELSE parsePList(composePList(fin.object).bytes)
    /\ CallOnly

NextCalls ==
    \/ CallHandleMessage
    \/ CallRpc
    \/ CallParseRaw
    \/ CallParseRawElement
    \/ CallParsePList

InitCalls ==
    /\ \/ \E call \in HandleMessageCalls : InitWith(call)
       \/ \E call \in RpcCalls : InitWith(call)
       \/ \E m \in Messages : InitWith([fn |-> "parseRaw", message |-> m])
       \/ \E property \in Properties :
              InitWith([fn |-> "parseRawElement", property |-> property])
       \/ \E object \in PListValues :
              InitWith([fn |-> "CFLBinaryPList.parse", object |-> object])
    /\ password_ok

SpecCalls == InitCalls /\ [][NextCalls]_vars

(* --------------------- a firmware file, in chunks --------------------- *)

\* the header of an image of a model, encrypted or not by its flags
FirmwareHeader(model, flags) ==
    composeFirmwareHeader([byte_0x0f |-> 0, model |-> model, version |-> 0,
                           byte_0x18 |-> 0, byte_0x19 |-> 0, byte_0x1a |-> 0,
                           flags |-> flags, unknown_0x1c |-> 0])

\* the file of a header and an image, with the checksum of the header and
\* the decrypted image when sound, another one otherwise
FirmwareFile(header_data, inner_data, sound) ==
    LET h == parseFirmwareHeader(header_data)
        d == IF Encrypted(h.flags) THEN decryptBuffer(inner_data, h.model, h.byte_0x0f)
             ELSE [threw |-> "nothing", data |-> inner_data]
    IN  header_data \o inner_data
            \o writeUInt32BE(IF sound THEN adler32(header_data \o d.data) ELSE <<0, 0>>)

\* the images of a given length
Images(k) == [1..k -> 0..1]

\* files of model 107 with every image, encrypted and plain; the ones with
\* no image and with the longest images again with another checksum; the
\* encrypted file with no image cut short; files of a model that has no
\* key, and files with another magic
FirmwareFiles ==
    {FirmwareFile(FirmwareHeader(107, flags), inner_data, TRUE) :
         flags \in {0, 2}, inner_data \in UNION {Images(k) : k \in 0..MaxInner}}
        \cup {FirmwareFile(FirmwareHeader(107, flags), inner_data, FALSE) :
                  flags \in {0, 2}, inner_data \in Images(0) \cup Images(MaxInner)}
        \cup {Take(FirmwareFile(FirmwareHeader(107, 2), <<>>, TRUE), n) :
                  n \in 0..(FIRMWARE_HEADER_SIZE + 3)}
        \cup {FirmwareFile(FirmwareHeader(1, 2), inner_data, TRUE) :
                  inner_data \in {<<>>, <<1, 0, 1>>}}
        \cup {FirmwareFile([FirmwareHeader(107, flags) EXCEPT ![1] = 0], inner_data, TRUE) :
                  flags \in {0, 2}, inner_data \in {<<>>, <<1, 0, 1>>}}

FirmwareOnly ==
    UNCHANGED <<fin, sessVars, pairVars, proof, propVars, monitorJob, pushed, srvVars, lockCall>>

\* the next chunk of the file, of any length, is written to the stream
FirmwareWrite ==
    /\ fin.fn = "firmware.parse"
    /\ ~fdone
    /\ \E n \in 1..Len(firmware.rest) :
           LET t == parseTransform(firmware.stream, Take(firmware.rest, n))
           IN  /\ firmware' = [stream |-> t, rest |-> Drop(firmware.rest, n),
                               bytewise |-> firmware.bytewise /\ n = 1]
               /\ fdone' = (t.error # "nothing")
               /\ fout' = IF t.error # "nothing"
                          THEN [threw |-> t.error, data |-> t.emitted]
                          ELSE fout
    /\ FirmwareOnly

\* the stream is ended after the last chunk
FirmwareEnd ==
    /\ fin.fn = "firmware.parse"
    /\ ~fdone
    /\ firmware.rest = <<>>
    /\ LET t == parseFlush(firmware.stream)
       IN  /\ firmware' = [firmware EXCEPT !.stream = t]
           /\ fout' = [threw |-> t.error, data |-> t.emitted]
    /\ fdone' = TRUE
    /\ FirmwareOnly

NextFirmware ==
    \/ FirmwareWrite
    \/ FirmwareEnd

InitFirmware ==
    /\ \E file \in FirmwareFiles : InitWith([fn |-> "firmware.parse", file |-> file])
    /\ password_ok

SpecFirmware == InitFirmware /\ [][NextFirmware]_vars

(* ----------------------- an image, in chunks -------------------------- *)

\* inputs made of the bytes of the signature and one other byte
ExtractInputs == UNION {[1..k -> {31, 139, 8, 0}] : k \in 0..MaxInput}

\* the next chunk of the input, of any length, is written to the stream
ExtractWrite ==
    /\ fin.fn = "firmware.extract"
    /\ ~fdone
    /\ \E n \in 1..Len(firmware.rest) :
           firmware' = [stream |-> extractTransform(firmware.stream, Take(firmware.rest, n)),
                        rest |-> Drop(firmware.rest, n),
                        bytewise |-> firmware.bytewise /\ n = 1]
    /\ UNCHANGED <<fdone, fout>>
    /\ FirmwareOnly

\* the stream is ended after the last chunk: flush ends the gunzip
ExtractEnd ==
    /\ fin.fn = "firmware.extract"
    /\ ~fdone
    /\ firmware.rest = <<>>
    /\ fdone' = TRUE
    /\ fout' = [written |-> firmware.stream.written]
    /\ UNCHANGED firmware
    /\ FirmwareOnly

NextExtract ==
    \/ ExtractWrite
    \/ ExtractEnd

InitExtract ==
    /\ \E file \in ExtractInputs : InitWith([fn |-> "firmware.extract", file |-> file])
    /\ password_ok

SpecExtract == InitExtract /\ [][NextExtract]_vars

(* ------------------------------ claims ------------------------------- *)

Executing(j) == jpc[j] \in {"writing", "header", "body"}

\* C1: at most one job callback is executing at any time, and a job's
\* callback is not started before the callback of every job queued earlier
\* has settled.
C1_OneCallbackAtATime ==
    /\ \A i, j \in Jobs : (Executing(i) /\ Executing(j)) => i = j
    /\ \A i, j \in Jobs : (i < j /\ Invoked(j)) => jpc[i] = "done"

C1_Witness == Invoked(1) /\ jpc[1] = "done" /\ 1 \in wrote /\ Executing(2)

C3_CanceledOnClose == \A j \in closedWhileQueued : promise[j] = "rejCanceled"

\* C4: the callback of a job that was waiting in the queue when the socket
\* closed is never invoked.
C4_AbortedNotRun == \A j \in closedWhileQueued : ~Invoked(j)

\* C5: a receive call that is waiting when the socket closes is rejected:
\* none is still waiting after a wake-up that found the socket closed.
C5_ReceiveCanceledOnClose == \A o \in Owners : rd[o].active => ~rd[o].polled_closed

\* C6: a receive call that is short of bytes and has seen no new byte for
\* longer than the timeout does not go on waiting.
C6_TimeoutFires == \A o \in Owners : rd[o].active => rd[o].idle <= Timeout

Consecutive(s, start) == \A i \in 1..Len(s) : s[i].pos = start + i

C9_RoundTrip ==
    (encryption # NoEnc /\ senc # NoEnc) =>
        /\ got_s = Take(plain_c, Len(got_s))
        /\ Len(got_s) + Len(wire_c2s) = Len(plain_c)
        /\ got_c = Take(plain_s, Len(got_c))
        /\ Len(got_c) + Len(wire_s2c) = Len(plain_s)

\* both directions carried MaxStream bytes, delivered to the server one byte
\* per data event and to the client in a single data event
C9_Witness ==
    /\ encryption # NoEnc /\ senc # NoEnc
    /\ Len(plain_c) = MaxStream /\ got_s = plain_c /\ events.server = MaxStream
    /\ Len(plain_s) = MaxStream /\ got_c = plain_s /\ events.client = 1

\* C8: while the socket stays open, an encryption context that has been
\* installed is never replaced or re-keyed, on the server's session or on the
\* client's, whatever authenticate calls and AUTHENTICATE messages follow.
C8_InstalledOnce ==
    /\ ssock = "open" => installs <= 1
    /\ sock = "open" => cinstalls <= 1

Rejected(i) == m1log[i].state = 3 /\ m1log[i].outcome = "rejected"

\* a state-1 message and then a state-3 message with a correct proof for the
\* B that the state-1 reply carried, both handled after entry i of the log
RetryAfter(i, j) ==
    /\ i < j - 1
    /\ m1log[j - 1].state = 1
    /\ m1log[j].state = 3 /\ m1log[j].pwok /\ m1log[j].B = m1log[j - 1].B

\* C10: when the check of M1 of a state-3 message fails, the server's reply is
\* an AUTHENTICATE message with error code INCORRECT_PASSWORD and the socket
\* stays open; a later state-1/state-3 exchange on the socket with a correct
\* proof is accepted: the server replies M2 with no error.
C10_RetryAfterIncorrectPassword ==
    /\ \A i \in 1..Len(m1log) :
           Rejected(i) => /\ m1log[i].reply.command = AUTHENTICATE
                          /\ m1log[i].reply.error_code = INCORRECT_PASSWORD
                          /\ m1log[i].open
    /\ \A i, j \in 1..Len(m1log) :
           (Rejected(i) /\ RetryAfter(i, j)) =>
               /\ m1log[j].outcome = "accepted"
               /\ m1log[j].reply.kind = "m2" /\ m1log[j].reply.error_code = 0

\* a proof was rejected and the retry on the same socket was accepted
C10_Witness ==
    \E i, j \in 1..Len(m1log) :
        Rejected(i) /\ RetryAfter(i, j) /\ m1log[j].outcome = "accepted" /\ ssock = "open"

\* C11: once the client's check of M2 has failed, the authenticate call is
\* rejected, the client has no encryption context, and the client puts no
\* further message on the wire of that connection.
C11_ProofMismatchFatal ==
    proof.failed =>
        /\ encryption = NoEnc
        /\ proof.sentAfter = 0
        /\ proof.lastAuth = "rejected"

\* C12: a session whose socket has closed has no encryption context, on the
\* client and on the server.
C12_DroppedOnClose ==
    /\ sock = "closed" => encryption = NoEnc
    /\ ssock = "closed" => senc = NoEnc

\* the exchange has taken every word of the response the peer sent to it
ReadWhole(j) == presp[j].sent /\ pj[j].own = presp[j].len

\* the first word the exchange queued behind j received, if it received
\* any, is the first word of its own response
NextAligned(j) ==
    (j + 1 \in PropJobs /\ pj[j + 1].first # <<>>) => pj[j + 1].first = <<j + 1, 1>>

\* getProperties or setProperties has ended by returning or by throwing the
\* error of a flagged element
Finished(j, kind) ==
    pj[j].kind = kind /\ pj[j].pc = "done" /\ pj[j].threw \in {"none", "element"}

\* C13: when getProperties returns, or throws because of a flagged element,
\* it has taken every word of its response through the end-of-list element
\* from the buffer, and the exchange queued behind it reads its own response
\* from the first word.
C13_ConsumedThroughSentinel ==
    \A j \in PropJobs : Finished(j, "get") => ReadWhole(j) /\ NextAligned(j)

C13_Witness ==
    /\ Finished(1, "get") /\ pj[1].threw = "element" /\ presp[1].errs = {1}
    /\ pj[2].pc = "done" /\ pj[2].first = <<2, 1>>

\* C14, as claimed: with include_errors false or not passed, getProperties
\* rejects whenever an element of the response has its error flag set.
C14_RejectsUnlessIncluded ==
    \A j \in PropJobs :
        (Finished(j, "get") /\ pj[j].include_errors \in {"false", "undefined"}
            /\ presp[j].errs # {}) => pj[j].promise = "rejected"

\* C14, amended: when an element of the response has its error flag set,
\* getProperties rejects if include_errors was not passed; with
\* include_errors false it resolves with the Property of every element that
\* has no flag, in order.
C14_RejectsWhenUnset ==
    \A j \in PropJobs :
        (Finished(j, "get") /\ presp[j].errs # {}) =>
            /\ pj[j].include_errors = "undefined" => pj[j].promise = "rejected"
            /\ pj[j].include_errors = "false" =>
                  /\ pj[j].promise = "resolved"
                  /\ pj[j].props_with_values =
                        SelectSeq([i \in 1..pj[j].n |-> [t |-> "prop", name |-> i]],
                                  LAMBDA e : e.name \notin presp[j].errs)

C14_Witness ==
    /\ Finished(1, "get") /\ pj[1].include_errors = "false" /\ presp[1].errs = {2}
    /\ pj[1].promise = "resolved"
    /\ Finished(2, "get") /\ pj[2].include_errors = "undefined" /\ presp[2].errs # {}
    /\ pj[2].promise = "rejected"

\* C15: with include_errors true, getProperties returns one entry for each
\* element before the end of the list, in the order of the elements: an
\* Error for a flagged element, a Property for any other.
C15_OneEntryPerElement ==
    \A j \in PropJobs :
        (Finished(j, "get") /\ pj[j].include_errors = "true") =>
            /\ pj[j].promise = "resolved"
            /\ pj[j].props_with_values =
                  [i \in 1..pj[j].n |->
                      [t |-> IF i \in presp[j].errs THEN "error" ELSE "prop", name |-> i]]

C15_Witness ==
    /\ Finished(1, "get") /\ pj[1].include_errors = "true" /\ presp[1].errs = {1}
    /\ Len(pj[1].props_with_values) = MaxElems

\* C16: when setProperties throws because of a flagged element, it has taken
\* the rest of its response through the end-of-list element from the buffer,
\* and the exchange queued behind it starts aligned.
C16_SetErrorKeepsAligned ==
    \A j \in PropJobs :
        (Finished(j, "set") /\ pj[j].threw = "element") => ReadWhole(j) /\ NextAligned(j)

\* C17: once monitor() has been acknowledged on the session, no request of a
\* further exchange is written to its socket.
C17_NoExchangeAfterMonitor ==
    (monitorJob # 0 /\ promise[monitorJob] = "resolved") =>
        \A j \in Jobs : j > monitorJob => j \notin wrote

\* C18: the monitor events are the bodies of the frames pushed, in order, one
\* for each frame that has arrived whole, however the frames were cut into
\* data events.
C18_OneEventPerFrame ==
    /\ Len(monEvents) <= Len(pushed)
    /\ \A i \in 1..Len(monEvents) : monEvents[i] = [n \in 1..pushed[i] |-> 20 + MonHeaderLen + n]
    /\ (s2c = <<>> /\ monpc = "idle") => Len(monEvents) = Len(pushed)

\* C19: on a connection, no message is dispatched while the handler of an
\* earlier message of that connection is running; the bytes that arrive in
\* the meantime only join the buffer.
C19_OneDispatchPerConnection ==
    /\ \A c \in Conns : Len(hrun[c]) <= 1
    /\ appendedOnly

C19_Witness ==
    \E c \in Conns : hrun[c] # <<>> /\ tryHandleMessage(sbuf[c]).kind = "dispatch"

\* C20: the sessions share no state: a data event of a connection that has no
\* handler running is never turned away because the handler of a message of
\* another connection is running.
C20_SessionsIndependent == \A c \in Conns : turnedAway[c] = 0

\* C21: a stream header (body size -1) that the server has parsed, with or
\* without bytes behind it, ends the session: the socket of its connection is
\* destroyed and the message is not handed to handleMessage.
C21_StreamHeaderTerminates ==
    \A s \in streams :
        /\ s.c \in destroyed
        /\ \A i \in 1..Len(dispatched[s.c]) : dispatched[s.c][i] # s.m

\* C22: when a job's receiveMessage fails on a header that does not parse,
\* the session's receive buffer is empty afterwards and the socket is as it
\* was.
C22_FramingErrorEmptiesBuffer ==
    [][\A j \in Jobs :
          (/\ promise[j] = "pending" /\ promise'[j] = "rejError"
           /\ lastRecv' # lastRecv /\ lastRecv'.owner = j
           /\ ~ValidHeader(lastRecv'.bytes))
          => (buffer' = <<>> /\ sock' = sock)]_vars

\* C23: when handleMessage has returned from a SET_PROPERTY message,
\* setProperty was called for each property of the message, in order, and a
\* response was sent whose element for each property that was set has the
\* value of four zero bytes.
C23_SetPropertyHandled ==
    (fdone /\ fin.fn = "handleMessage" /\ fin.message.command = SET_PROPERTY)
    => /\ fout.calls = [i \in 1..Len(fin.names) |->
                           [fn |-> "setProperty", name |-> fin.names[i]]]
       /\ fout.returned = "sent"
       /\ \A i \in 1..Len(fin.names) :
             fin.names[i] \notin fin.throws
             => \E k \in 1..Len(fout.body) :
                   SubSeq(fout.body, k, k + ELEMENT_HEADER_SIZE)
                       = composeRawElement(0, fin.names[i], <<0>>)

\* the response the claim describes for a GET_PROPERTY request
RECURSIVE ExpectedElements(_, _)
ExpectedElements(names, throws) ==
    IF names = <<>> THEN Sentinel
    ELSE (IF Head(names) \in throws THEN composeRawElement(1, Head(names), <<-10>>)
          ELSE composeRawElement(0, Head(names), StoredValue(Head(names))))
             \o ExpectedElements(Tail(names), throws)

\* C24: the response handleMessage sends to a GET_PROPERTY message has one
\* element per property asked for, in the order of the request, with the
\* value when getProperty returned and with flag bit 0 and the 4-byte value
\* -10 when it threw, and then the end of the list.
C24_GetPropertyResponse ==
    (fdone /\ fin.fn = "handleMessage" /\ fin.message.command = GET_PROPERTY)
    => fout.returned = "sent" /\ fout.body = ExpectedElements(fin.names, fin.throws)

\* C25: rpc rejects with a failure that carries the status when the status of
\* the response (a response without error code, with its outputs) is a number
\* other than 0.
C25_RpcRejectsOnStatus ==
    (/\ fdone /\ fin.fn = "rpc" /\ assertOk(fin.response)
     /\ fin.response.numeric /\ fin.response.outputs /\ fin.response.status # 0)
    => fout.returned = "RPCFailed" /\ fout.status = fin.response.status

\* C26: parsing the packet composed of a Message gives a Message with the
\* same version, flags, unused, command, error code, key, body, body size and
\* body checksum.
C26_MessageRoundTrip ==
    (fdone /\ fin.fn = "parseRaw")
    => fout.threw = "nothing" /\ fout.message = fin.message

\* C27: CFLBinaryPList.parse of CFLBinaryPList.compose(x) is x, for x made
\* of nulls, booleans, integers, Buffers, strings, Arrays and objects.
C27_PListRoundTrip ==
    (fdone /\ fin.fn = "CFLBinaryPList.parse")
    => ~fout.threw /\ fout.object = fin.object

\* C28: composeRawElement of the empty Property gives sixteen zero bytes.
C28_SentinelAllZero ==
    (fdone /\ fin.fn = "parseRawElement" /\ fin.property.name = <<>>)
    => fout.composed = Zeros(16)

\* C28, amended: composeRawElement of the empty Property gives sixteen bytes,
\* the name and the flags zero, the size 4, and four zero bytes of value.
C28_SentinelSizeFour ==
    (fdone /\ fin.fn = "parseRawElement" /\ fin.property.name = <<>>)
    => fout.composed = Zeros(11) \o <<4>> \o Zeros(4)

\* the empty Property has been composed
C28_Witness == fdone /\ fin.fn = "parseRawElement" /\ fin.property.name = <<>>

\* C29: parseRawElement of composeRawElement(0, p), for a Property p with a
\* name of the table, gives a Property with the name and the value of p.
C29_ElementRoundTrip ==
    (fdone /\ fin.fn = "parseRawElement" /\ fin.property.name # <<>>)
    => /\ fout.parsed.threw = "nothing"
       /\ fout.parsed.name = fin.property.name
       /\ fout.parsed.value = fin.property.value

\* C29, amended: the same for a Property p that has a value.
C29_ValuedElementRoundTrip ==
    (/\ fdone /\ fin.fn = "parseRawElement"
     /\ fin.property.name # <<>> /\ fin.property.value # <<>>)
    => /\ fout.parsed.threw = "nothing"
       /\ fout.parsed.name = fin.property.name
       /\ fout.parsed.value = fin.property.value

\* a Property with a value of some bytes has made the round trip
C29_Witness ==
    /\ fdone /\ fin.fn = "parseRawElement"
    /\ fin.property.name # <<>> /\ fin.property.value # <<>>
    /\ Len(fin.property.value[1]) > 0

\* C30: whatever the chunks a firmware file is written in, the stream form
\* of firmware.parse ends with an error exactly when the buffer form throws
\* on the file, and when the buffer form returns, the stream has emitted the
\* bytes it returns.
C30_StreamAsBuffer ==
    (fdone /\ fin.fn = "firmware.parse")
    => /\ (fout.threw # "nothing") = (parseFirmware(fin.file).threw # "nothing")
       /\ parseFirmware(fin.file).threw = "nothing"
              => fout.data = parseFirmware(fin.file).data

\* an encrypted image longer than one chunk of the cipher, written one byte
\* at a time, came out of the stream whole
C30_Witness ==
    /\ fdone
    /\ fin.fn = "firmware.parse"
    /\ firmware.bytewise
    /\ firmware.stream.decrypt_stream # <<>>
    /\ firmware.stream.decrypt_stream[1].cipher
    /\ fout.threw = "nothing"
    /\ Len(fout.data) > chunk_length

\* C31: whatever the chunks the input of the stream form of extract is
\* written in, the bytes the gunzip is given are the input from the first
\* place the signature 1F 8B 08 is at in the whole input, and none when the
\* signature is nowhere in it.
C31_InflatesFromFirstSignature ==
    (fdone /\ fin.fn = "firmware.extract")
    => fout.written =
           IF bufferIndexOf(fin.file, header_bytes) = -1 THEN <<>>
           ELSE Drop(fin.file, bufferIndexOf(fin.file, header_bytes))

\* an input written one byte at a time, with the signature after its first
\* byte, was given to the gunzip from the signature on
C31_Witness ==
    /\ fdone
    /\ fin.fn = "firmware.extract"
    /\ firmware.bytewise
    /\ bufferIndexOf(fin.file, header_bytes) > 0
    /\ Len(fout.written) > Len(header_bytes)

\* C32: a get/set properties, monitor, rpc or flash message the client
\* composed while session encryption was installed has a header key of 32
\* zero bytes, never the key derived from the password.
C32_ZeroKeyWhenEncrypted ==
    \A i \in 1..Len(a_c2s) :
        (a_c2s[i].command # AUTHENTICATE /\ a_c2s[i].composed_encrypted)
        => a_c2s[i].key = "zero"

\* a command composed after the handshake installed encryption is on its way
C32_Witness ==
    /\ encryption # NoEnc
    /\ \E i \in 1..Len(a_c2s) :
           /\ a_c2s[i].command = GET_PROPERTY
           /\ a_c2s[i].composed_encrypted
           /\ a_c2s[i].ks # <<"plain">>

\* C33: the unsolicited-data handler takes no byte of the response to a job
\* that is reading: a read of the handler never returns bytes the peer sent
\* in answer to a job whose receive call is in progress.
C33_ResponseBytesReachTheJob ==
    \A j \in Jobs :
        (lastRecv.owner = 0 /\ promise[j] = "pending" /\ rd[j].active)
        => CountOf(lastRecv.bytes, j) = 0

\* C34: when handshakes are run by Client.authenticate, the stage-4 reply
\* travels unencrypted and is read unencrypted; once an end has installed
\* encryption every message it sends is encrypted; and the next message an
\* end reads was encrypted with the keystream that end decrypts it with,
\* plaintext when it decrypts nothing.
C34_BothEndsAgree ==
    /\ \A i \in 1..Len(a_s2c) :
           /\ a_s2c[i].kind = "m2" => a_s2c[i].ks = <<"plain">>
           /\ (a_s2c[i].kind # "m2" /\ senc # NoEnc) => a_s2c[i].ks # <<"plain">>
    /\ \A i \in 1..Len(a_c2s) : encryption # NoEnc => a_c2s[i].ks # <<"plain">>
    /\ (sock = "open" /\ a_s2c # <<>>) => RecvKs(encryption) = Head(a_s2c).ks
    /\ (ssock = "open" /\ a_c2s # <<>>) => RecvKs(senc) = Head(a_c2s).ks

\* after a handshake both ends have installed encryption and an encrypted
\* reply is on its way to the client
C34_Witness ==
    /\ encryption # NoEnc
    /\ senc # NoEnc
    /\ cinstalls = 1
    /\ a_s2c # <<>>
    /\ Head(a_s2c).ks # <<"plain">>

\* C35: a complete message does not wait in the buffer of a connection once
\* the dispatch of an earlier message of that connection has finished: when
\* no handler runs, and no data event of the connection was turned away for
\* another connection's handler, the buffer of a connection that has had a
\* message dispatched holds no message ready to be dispatched.
C35_NextMessageDispatched ==
    \A c \in accepted \ destroyed :
        (~handlingData /\ dispatched[c] # <<>> /\ turnedAway[c] = 0)
        => tryHandleMessage(sbuf[c]).kind # "dispatch"

\* C36: the bytes of a message stay in the buffer of its connection until
\* the message is dispatched: in no step, streams and stream headers apart,
\* does a connection hold fewer bytes of a message than before (in its
\* buffer or on their way to it) unless that step dispatches the message.
C36_KeptUntilComplete ==
    [][streams' = {}
       => \A c \in Conns, m \in 1..MaxMsgs :
              LET all == SelectSeq(sbuf[c] \o snet[c], LAMBDA x : x.m = m)
                  held == Len(all)
                  left == Len(SelectSeq(sbuf'[c] \o snet'[c], LAMBDA x : x.m = m))
              IN  (left < held /\ \A i \in 1..held : all[i].v # -1)
                  => /\ left = 0
                     /\ Len(dispatched'[c]) = Len(dispatched[c]) + 1
                     /\ dispatched'[c][Len(dispatched'[c])] = m]_vars

\* C37: the server installs encryption only for a state-3 message whose M1
\* verifies against the SRP state of an earlier state-1 message of the
\* session, with no failed attempt in between: every installation is an
\* accepted state-3 message carrying a good proof for the public key that
\* an earlier state 1 issued, after which no attempt was rejected, and a
\* state-3 message without that is not accepted.
C37_InstallsOnlyAfterVerifiedM1 ==
    /\ installs = Cardinality({i \in 1..Len(m1log) : m1log[i].outcome = "accepted"})
    /\ senc # NoEnc => installs > 0
    /\ \A i \in 1..Len(m1log) :
           m1log[i].outcome = "accepted"
           <=> /\ m1log[i].state = 3
               /\ m1log[i].pwok
               /\ \E j \in 1..(i - 1) :
                      /\ m1log[j].state = 1
                      /\ m1log[j].B = m1log[i].B
                      /\ \A k \in (j + 1)..(i - 1) :
                             m1log[k].state = 1 \/ m1log[k].outcome = "accepted"
                      /\ \A k \in (j + 1)..(i - 1) : m1log[k].state # 1

\* encryption was installed, and a state 3 that came after a failed
\* attempt with no new state 1 was ignored
C37_Witness ==
    /\ installs > 0
    /\ \E i, j \in 1..Len(m1log) :
           /\ i < j
           /\ m1log[i].outcome = "rejected"
           /\ m1log[j].outcome = "ignored"
           /\ \A k \in (i + 1)..(j - 1) : m1log[k].state # 1

\* C38: a job whose callback throws or rejects fails only its own promise,
\* and the jobs queued after it still run, in order: the step in which a
\* job's promise is rejected with the callback's error changes no other
\* promise; a promise so rejected is that of a job whose callback was
\* invoked and whose chain link has resolved, so the next link is not held
\* back; and callbacks are invoked in the order the jobs were queued.
C38_FailedJobFailsAlone ==
    [][/\ \A j \in Jobs :
              (promise[j] # "rejError" /\ promise'[j] = "rejError")
              => \A i \in Jobs \ {j} : promise'[i] = promise[i]
       /\ \A j \in Jobs :
              promise'[j] = "rejError"
              => /\ Invoked(j)'
                 /\ linkDone'[j]
                 /\ (j + 1 \in 1..nq' /\ jpc'[j + 1] = "queued") => PrevSettled(j + 1)'
       /\ \A a, b \in 1..Len(started') : a < b => started'[a] < started'[b]]_vars

\* the first job's callback failed and the second job ran and resolved
C38_Witness ==
    /\ promise[1] = "rejError"
    /\ started = <<1, 2>>
    /\ promise[2] = "resolved"

\* C39: Session.reading is the number of receiveSize calls in progress: it
\* counts the readers (the jobs and the unsolicited-data handler) that have
\* a receive under way, so it is never negative and is 0 when none is.
C39_ReadingCountsReceives ==
    /\ reading = Cardinality({o \in Owners : rd[o].active})
    /\ reading >= 0
    /\ (\A o \in Owners : ~rd[o].active) => reading = 0

\* a receive has returned while two others are in progress
C39_Witness ==
    /\ reading = 2
    /\ lastRecv # NoRecv

\* C40: a call of send, receive or receiveMessage on a job's lock after the
\* job's callback has settled fails with 'Lock is no longer valid', hands
\* nothing to the socket and takes nothing from the receive buffer.
C40_SettledLockRefuses ==
    (lockCall.n > 0 /\ lockCall.settled)
    => /\ lockCall.error = "Lock is no longer valid"
       /\ lockCall.wrote = 0
       /\ lockCall.took = 0

\* the lock of a settled job was asked to receive on an open socket while
\* the buffer held bytes
C40_Witness ==
    /\ lockCall.n > 0
    /\ lockCall.settled
    /\ lockCall.method = "receive"
    /\ sock = "open"
    /\ buffer # <<>>

====
